---- MODULE Spec2Model ----
(***************************************************************************)
(* Model of lru::Cache<std::string, std::string> (include/lru_cache/       *)
(* cache.h) together with the length-prefixed codec used by Dump and Load  *)
(* (lru_cache/serde.h).                                                    *)
(*                                                                         *)
(* A std::string is a sequence of chars.  A node of the std::list buffer   *)
(* is a record [node, first, second]: `node' is the address of the         *)
(* list node, which is what a std::list iterator stored in the hashtable   *)
(* refers to.  size_t is modelled with SizeBits bits instead of 64 (TLC    *)
(* integers are 32-bit); every size_t operation is reduced modulo SizeMod. *)
(***************************************************************************)
EXTENDS Integers, Sequences, FiniteSets, TLC

VARIABLES
    buf,        \* Cache::buf_   : the list, head (most recently used) first
    table,      \* Cache::table_ : key -> address of the list node
    stats,      \* Cache::stats_ : CacheInfo
    key_mem_,   \* Cache::key_mem_   : key cost hint or nullptr
    value_mem_, \* Cache::value_mem_ : value cost hint or nullptr
    last,       \* the call made last: operation, arguments, entries it destroyed
    ret,        \* what the last call returned (or wrote, for Dump)
    ngets       \* number of Get calls made so far

\* A Load in progress, seen one read of the input at a time: the input range
\* (its iterator kind and its bytes), the position curr_ of the wrapped
\* iterator, the locals of the DeserializingIterator, where Load is, and
\* whether the input was read or advanced at or beyond `last'.
VARIABLES stream, curr_, frame, pc, past

loader == <<stream, curr_, frame, pc, past>>

\* SafeCache: the recursive mutex of each instance, the engine of a second
\* instance (otherCache; the first one is buf, table, stats), what each thread
\* is doing, and the engine a single thread would have produced by running
\* the operations on the first instance in the order the lock was acquired.
VARIABLES mutex_, otherCache, thread, serial

safe == <<mutex_, otherCache, thread, serial>>

\* Stream output of a SafeCache: the lines written to the std::ostream so
\* far, the owner of the static std::mutex of operator<<, and the lines the
\* prints write when each runs alone, in the order the prints took the locks.
VARIABLES out, static_m, expected

printer == <<out, static_m, expected>>

\* The length codec on its own: one length going through EncodeSize and
\* DecodeSize.
VARIABLE codec

vars == <<buf, table, stats, key_mem_, value_mem_, last, ret, ngets, loader, safe,
          printer, codec>>

-----------------------------------------------------------------------------
(* Bounds of the model *)

MaxGets == 1      \* Get calls made in one run
MaxLoad == 2      \* entries in a stream given to Load
MaxEntries == 1   \* entries in a stream that Load reads byte by byte
MaxChunk == 3     \* largest chunk Load reads byte by byte
MaxPast == 16     \* how far behind a contiguous input Load is followed
MaxHandles == 2   \* ScopeGuards one thread keeps alive at a time
MaxLength == 300  \* chunk lengths 0..MaxLength go through the length codec
MaxPrints == 2    \* prints of the SafeCache in one behaviour

-----------------------------------------------------------------------------
(* Program constants *)

SizeBits == 16
SizeMod == 2 ^ SizeBits

\* std::numeric_limits<size_t>::max()
nval == SizeMod - 1

\* sizeof(std::pair<const std::string, std::string>)
\*   + sizeof(std::pair<const std::string, std::list<...>::iterator>)
kItemMem == 104

nullptr == "nullptr"

\* size_t arithmetic
SizeAdd(a, b) == (a + b) % SizeMod
SizeSub(a, b) == (a - b + SizeMod) % SizeMod

-----------------------------------------------------------------------------
(* Inputs *)

\* The strings of TestAllocMemoryMonitoring, as sequences of chars.
KeyList == << <<49>>, <<49, 50>>, <<49, 50, 51>> >>        \* "1", "12", "123"
ValueList == << <<49, 50>>, <<49, 50, 51, 52>> >>          \* "12", "1234"

Keys == {KeyList[i] : i \in 1..Len(KeyList)}
Values == {ValueList[i] : i \in 1..Len(ValueList)}

\* Limits given to the constructor and to Maxsize()/Maxmem().
SizeLimits == {0, 2, nval}
MemLimits == {0, kItemMem + 4, 2 * kItemMem + 12, nval}

\* The cost hint of TestAllocMemoryMonitoring: str.size()
StrSize(str) == Len(str)
\* The hints given to the constructor, <<key_mem, value_mem>>: none as in the
\* CRUD tests, or both as in TestAllocMemoryMonitoring.
Hints == {<<nullptr, nullptr>>, <<"size", "size">>}

-----------------------------------------------------------------------------
(* The cache as a value: operators below take and return such a record. *)

Cache == [buf |-> buf, table |-> table, stats |-> stats]

\* Size() and Memory()
Size == stats.currsize
Memory == stats.currmem

Item(e) == <<e.first, e.second>>
Items(b) == [i \in 1..Len(b) |-> Item(b[i])]
KeysOf(b) == {b[i].first : i \in 1..Len(b)}
Nodes(b) == {b[i].node : i \in 1..Len(b)}

\* Position in the list of the node an iterator refers to.
PosOf(b, it) == CHOOSE i \in 1..Len(b) : b[i].node = it

\* Address of the list node allocated for an entry.  The allocator may return
\* any free address; the model gives every key an address of its own (the
\* key stands for it), which is free whenever the key is not in the list.
NewNode(key) == key

Remove(b, i) == SubSeq(b, 1, i - 1) \o SubSeq(b, i + 1, Len(b))

Restrict(f, S) == [x \in S |-> f[x]]

-----------------------------------------------------------------------------
(* Memory accounting *)

\* Mutant of CalcItemMem: the key is counted once instead of twice.
CalcItemMemKeyOnce(item) ==
    LET size0 == kItemMem
        size1 == IF key_mem_ # nullptr
                 THEN SizeAdd(size0, StrSize(item.first))
                 ELSE size0
        size2 == IF value_mem_ # nullptr
                 THEN SizeAdd(size1, StrSize(item.second))
                 ELSE size1
    IN size2

CalcItemMem(item) ==
    LET size0 == kItemMem
        size1 == IF key_mem_ # nullptr
                 THEN SizeAdd(size0, (StrSize(item.first) * 2) % SizeMod)
                 ELSE size0
        size2 == IF value_mem_ # nullptr
                 THEN SizeAdd(size1, StrSize(item.second))
                 ELSE size1
    IN size2

-----------------------------------------------------------------------------
(* Private operations of the engine *)

\* Sum of CalcItemMem over a range of list nodes (the accumulation of the
\* std::for_each in Maxsize).
RECURSIVE SumItemMem(_)
SumItemMem(b) ==
    IF b = <<>> THEN 0
    ELSE SizeAdd(CalcItemMem(Head(b)), SumItemMem(Tail(b)))

\* Mutant of Touch: the node stays where it is.
TouchNoMove(c, it) == c

\* Mutant of Touch: the node goes to the front and the others are reversed.
TouchReversesRest(c, it) ==
    LET i == PosOf(c.buf, it)
        rest == Remove(c.buf, i)
    IN [c EXCEPT !.buf = <<c.buf[i]>> \o [j \in 1..Len(rest) |->
                                              rest[Len(rest) + 1 - j]]]

Touch(c, it) ==
    LET i == PosOf(c.buf, it)
    IN [c EXCEPT !.buf = <<c.buf[i]>> \o Remove(c.buf, i)]

\* Mutant of Pop: the head of the list is removed instead of the tail.
PopFront(c) ==
    IF c.buf = <<>> THEN c
    ELSE LET front == c.buf[1]
             mem == CalcItemMem(front)
         IN [buf |-> Tail(c.buf),
             table |-> Restrict(c.table, DOMAIN c.table \ {front.first}),
             stats |-> [c.stats EXCEPT !.currsize = SizeSub(@, 1),
                                       !.currmem = SizeSub(@, mem)]]

\* Mutant of Pop: the key of the removed node stays in the hashtable.
PopKeepsIndex(c) ==
    IF c.buf = <<>> THEN c
    ELSE LET back == c.buf[Len(c.buf)]
             mem == CalcItemMem(back)
         IN [buf |-> SubSeq(c.buf, 1, Len(c.buf) - 1),
             table |-> c.table,
             stats |-> [c.stats EXCEPT !.currsize = SizeSub(@, 1),
                                       !.currmem = SizeSub(@, mem)]]

Pop(c) ==
    IF c.buf = <<>> THEN c
    ELSE LET back == c.buf[Len(c.buf)]
             mem == CalcItemMem(back)
         IN [buf |-> SubSeq(c.buf, 1, Len(c.buf) - 1),
             table |-> Restrict(c.table, DOMAIN c.table \ {back.first}),
             stats |-> [c.stats EXCEPT !.currsize = SizeSub(@, 1),
                                       !.currmem = SizeSub(@, mem)]]

\* buf_.emplace_front, table_.emplace and the two stats_ updates of Push.
PushFront(c, key, value) ==
    LET front == [node |-> NewNode(key), first |-> key, second |-> value]
    IN [buf |-> <<front>> \o c.buf,
        table |-> IF key \in DOMAIN c.table THEN c.table
                  ELSE [k \in DOMAIN c.table \cup {key} |->
                           IF k = key THEN front.node ELSE c.table[k]],
        stats |-> [c.stats EXCEPT
                      !.currsize = SizeAdd(@, 1),
                      !.currmem = SizeAdd(@, CalcItemMem(front))]]

\* Mutant of Push: the limits are not enforced.
PushNoPop(c, key, value) == PushFront(c, key, value)

\* Mutant of Push: Pop is called whatever the limits are.
PushPopsAlways(c, key, value) == Pop(PushFront(c, key, value))

Push(c, key, value) ==
    LET c1 == PushFront(c, key, value)
    IN IF \/ c1.stats.currsize > c1.stats.maxsize
          \/ c1.stats.currmem > c1.stats.maxmem
       THEN Pop(c1)
       ELSE c1

\* Mutant of Update: currmem is left as it was.
UpdateKeepsMem(c, it, value) ==
    LET i == PosOf(c.buf, it)
    IN Touch([c EXCEPT !.buf[i].second = value], it)

Update(c, it, value) ==
    LET i == PosOf(c.buf, it)
        mem == IF value_mem_ # nullptr
               THEN SizeAdd(SizeSub(c.stats.currmem, StrSize(c.buf[i].second)),
                            StrSize(value))
               ELSE c.stats.currmem
        c1 == [c EXCEPT !.buf[i].second = value, !.stats.currmem = mem]
    IN Touch(c1, it)

-----------------------------------------------------------------------------
(* Public operations of the engine, as functions of the cache *)

Set(c, key, value) ==
    IF key \notin DOMAIN c.table
    THEN Push(c, key, value)
    ELSE Update(c, c.table[key], value)

\* Mutant of Flush: currmem is not reset.
FlushKeepsMem(c) ==
    [buf |-> <<>>,
     table |-> Restrict(c.table, {}),
     stats |-> [c.stats EXCEPT !.currsize = 0]]

\* Mutant of Flush: the hits/misses statistics are cleared too.
FlushResetsStats(c) ==
    [buf |-> <<>>,
     table |-> Restrict(c.table, {}),
     stats |-> [c.stats EXCEPT !.currsize = 0, !.currmem = 0,
                               !.hits = 0, !.misses = 0]]

Flush(c) ==
    [buf |-> <<>>,
     table |-> Restrict(c.table, {}),
     stats |-> [c.stats EXCEPT !.currsize = 0, !.currmem = 0]]

\* Mutant of Get: a miss moves the least recently used entry to the front.
GetMissTouches(c, key) ==
    IF key \notin DOMAIN c.table
    THEN LET c1 == IF c.buf = <<>> THEN c
                   ELSE Touch(c, c.buf[Len(c.buf)].node)
         IN [cache |-> [c1 EXCEPT !.stats.misses = SizeAdd(@, 1)],
             result |-> [kind |-> "empty", val |-> <<>>]]
    ELSE LET c1 == Touch(c, c.table[key])
         IN [cache |-> [c1 EXCEPT !.stats.hits = SizeAdd(@, 1)],
             result |-> [kind |-> "value", val |-> c1.buf[1].second]]

\* Mutant of Get: the value at the front of the list is returned.
GetFrontValue(c, key) ==
    IF key \notin DOMAIN c.table
    THEN [cache |-> [c EXCEPT !.stats.misses = SizeAdd(@, 1)],
          result |-> [kind |-> "empty", val |-> <<>>]]
    ELSE LET c1 == Touch(c, c.table[key])
         IN [cache |-> [c1 EXCEPT !.stats.hits = SizeAdd(@, 1)],
             result |-> [kind |-> "value", val |-> c.buf[1].second]]

\* Get, Add, Replace and Delete return a result next to the new cache.
Get(c, key) ==
    IF key \notin DOMAIN c.table
    THEN [cache |-> [c EXCEPT !.stats.misses = SizeAdd(@, 1)],
          result |-> [kind |-> "empty", val |-> <<>>]]
    ELSE LET it == c.table[key]
             c1 == Touch(c, it)
         IN [cache |-> [c1 EXCEPT !.stats.hits = SizeAdd(@, 1)],
             result |-> [kind |-> "value",
                         val |-> c1.buf[PosOf(c1.buf, it)].second]]

\* Mutant of Add: an existing entry is overwritten.
AddOverwrites(c, key, value) ==
    IF key \notin DOMAIN c.table
    THEN [cache |-> Push(c, key, value), result |-> [kind |-> "bool", val |-> TRUE]]
    ELSE [cache |-> Update(c, c.table[key], value),
          result |-> [kind |-> "bool", val |-> FALSE]]

Add(c, key, value) ==
    IF key \notin DOMAIN c.table
    THEN [cache |-> Push(c, key, value), result |-> [kind |-> "bool", val |-> TRUE]]
    ELSE [cache |-> Touch(c, c.table[key]),
          result |-> [kind |-> "bool", val |-> FALSE]]

\* Mutant of Replace: a missing entry is inserted.
ReplaceInserts(c, key, value) ==
    IF key \notin DOMAIN c.table
    THEN [cache |-> Push(c, key, value), result |-> [kind |-> "bool", val |-> FALSE]]
    ELSE [cache |-> Update(c, c.table[key], value),
          result |-> [kind |-> "bool", val |-> TRUE]]

Replace(c, key, value) ==
    IF key \notin DOMAIN c.table
    THEN [cache |-> c, result |-> [kind |-> "bool", val |-> FALSE]]
    ELSE [cache |-> Update(c, c.table[key], value),
          result |-> [kind |-> "bool", val |-> TRUE]]

\* Mutant of Delete: the cost of the erased entry stays in currmem.
DeleteKeepsMem(c, key) ==
    IF key \notin DOMAIN c.table
    THEN [cache |-> c, result |-> [kind |-> "bool", val |-> FALSE]]
    ELSE LET i == PosOf(c.buf, c.table[key])
         IN [cache |-> [buf |-> Remove(c.buf, i),
                        table |-> Restrict(c.table, DOMAIN c.table \ {key}),
                        stats |-> [c.stats EXCEPT !.currsize = SizeSub(@, 1)]],
             result |-> [kind |-> "bool", val |-> TRUE]]

Delete(c, key) ==
    IF key \notin DOMAIN c.table
    THEN [cache |-> c, result |-> [kind |-> "bool", val |-> FALSE]]
    ELSE LET i == PosOf(c.buf, c.table[key])
             mem == CalcItemMem(c.buf[i])
         IN [cache |-> [buf |-> Remove(c.buf, i),
                        table |-> Restrict(c.table, DOMAIN c.table \ {key}),
                        stats |-> [c.stats EXCEPT !.currsize = SizeSub(@, 1),
                                                  !.currmem = SizeSub(@, mem)]],
             result |-> [kind |-> "bool", val |-> TRUE]]

Min(a, b) == IF a < b THEN a ELSE b

\* Mutant of Maxsize: the sentinel is ignored.
MaxsizeIgnoresSentinel(c, items) ==
    IF items = nval
    THEN c
    ELSE LET start == Min(items, Len(c.buf))
             erased == SubSeq(c.buf, start + 1, Len(c.buf))
             mem == SumItemMem(erased)
         IN [buf |-> SubSeq(c.buf, 1, start),
             table |-> Restrict(c.table, DOMAIN c.table \ KeysOf(erased)),
             stats |-> [c.stats EXCEPT
                           !.maxsize = items,
                           !.currsize = IF @ > items THEN items ELSE @,
                           !.currmem = SizeSub(@, mem)]]

\* Mutant of Maxsize: the entries at the tail are the ones kept.
MaxsizeKeepsTail(c, items) ==
    IF items = nval
    THEN [c EXCEPT !.stats.maxsize = items]
    ELSE LET start == Min(items, Len(c.buf))
             erased == SubSeq(c.buf, 1, Len(c.buf) - start)
             mem == SumItemMem(erased)
         IN [buf |-> SubSeq(c.buf, Len(c.buf) - start + 1, Len(c.buf)),
             table |-> Restrict(c.table, DOMAIN c.table \ KeysOf(erased)),
             stats |-> [c.stats EXCEPT
                           !.maxsize = items,
                           !.currsize = IF @ > items THEN items ELSE @,
                           !.currmem = SizeSub(@, mem)]]

Maxsize(c, items) ==
    IF items = nval
    THEN [c EXCEPT !.stats.maxsize = items]
    ELSE LET start == Min(items, Len(c.buf))
             erased == SubSeq(c.buf, start + 1, Len(c.buf))
             mem == SumItemMem(erased)
         IN [buf |-> SubSeq(c.buf, 1, start),
             table |-> Restrict(c.table, DOMAIN c.table \ KeysOf(erased)),
             stats |-> [c.stats EXCEPT
                           !.maxsize = items,
                           !.currsize = IF @ > items THEN items ELSE @,
                           !.currmem = SizeSub(@, mem)]]

\* while (stats_.currmem > bytes) { Pop(); }
RECURSIVE MaxmemLoop(_, _)
MaxmemLoop(c, bytes) ==
    IF c.stats.currmem > bytes THEN MaxmemLoop(Pop(c), bytes) ELSE c

\* Mutant of Maxmem: one entry at most is evicted.
MaxmemPopsOnce(c, bytes) ==
    LET c1 == IF c.stats.currmem > bytes THEN Pop(c) ELSE c
    IN [c1 EXCEPT !.stats.maxmem = bytes]

Maxmem(c, bytes) ==
    LET c1 == MaxmemLoop(c, bytes)
    IN [c1 EXCEPT !.stats.maxmem = bytes]

-----------------------------------------------------------------------------
(* Codec (lru::serde): chunks prefixed by an 8-byte length *)

SizeofSize == 8   \* sizeof(serde::Size), a uint64_t

\* n >> (8 * i)
RECURSIVE Shr8(_, _)
Shr8(n, i) == IF i = 0 THEN n ELSE Shr8(n \div 256, i - 1)

\* b << (8 * i); a zero byte is not shifted, so that no intermediate value
\* leaves the range of the model's integers.
RECURSIVE Shl8(_, _)
Shl8(b, i) == IF b = 0 \/ i = 0 THEN b ELSE Shl8(b * 256, i - 1)

\* Serde<char>: the byte representation of a char and back (char is signed).
SerializeIntegral(val) == <<val % 256>>
DeserializeIntegral(chunk) == IF chunk[1] >= 128 THEN chunk[1] - 256 ELSE chunk[1]

\* Serde<std::string>, the specialization for integral sequences.
RECURSIVE SerializeSeq(_)
SerializeSeq(seq) ==
    IF seq = <<>> THEN <<>>
    ELSE SerializeIntegral(Head(seq)) \o SerializeSeq(Tail(seq))

DeserializeSeq(chunk) ==
    [n \in 1..Len(chunk) |-> DeserializeIntegral(<<chunk[n]>>)]

\* The bytes of `size' in the byte order of the host (little-endian).
EncodeSize(size) == [i \in 1..SizeofSize |-> Shr8(size, i - 1) % 256]

\* Reads SizeofSize bytes at `it'; returns the size and the advanced iterator.
\* The bytes are those of an input of unsigned elements, below 2^31 in all;
\* DecodeByte below is the same loop for every element type.
RECURSIVE DecodeSizeLoop(_, _, _, _)
DecodeSizeLoop(bytes, it, i, size) ==
    IF i = SizeofSize THEN [size |-> size, it |-> it]
    ELSE DecodeSizeLoop(bytes, it + 1, i + 1, size + Shl8(bytes[it], i))

DecodeSize(bytes, it) == DecodeSizeLoop(bytes, it, 0, 0)

\* SerializingIterator
SerializeChunk(obj) ==
    LET chunk == SerializeSeq(obj)
    IN EncodeSize(Len(chunk)) \o chunk

Serialize(e) == SerializeChunk(e.first) \o SerializeChunk(e.second)

\* DeserializingIterator over a contiguous container; `curr' is the position
\* of the wrapped iterator.  Returns the object and the advanced position.
DeserializeChunk(bytes, curr) ==
    LET d == DecodeSize(bytes, curr)
    IN [obj |-> DeserializeSeq(SubSeq(bytes, d.it, d.it + d.size - 1)),
        curr |-> d.it + d.size]

Deserialize(bytes, curr) ==
    LET k == DeserializeChunk(bytes, curr)
        v == DeserializeChunk(bytes, k.curr)
    IN [first |-> k.obj, second |-> v.obj, curr |-> v.curr]

\* Dump(Container &): the entries from rbegin() to rend().
RECURSIVE DumpFrom(_, _)
DumpFrom(b, i) ==
    IF i = 0 THEN <<>> ELSE Serialize(b[i]) \o DumpFrom(b, i - 1)

\* Mutant of Dump: the entries are written from begin() to end().
RECURSIVE DumpHeadToTail(_)
DumpHeadToTail(c) ==
    IF c.buf = <<>> THEN <<>>
    ELSE Serialize(Head(c.buf)) \o DumpHeadToTail([c EXCEPT !.buf = Tail(@)])

Dump(c) == DumpFrom(c.buf, Len(c.buf))

\* The items the DeserializingIterator yields from position `curr' until it
\* compares equal to the end of the container.
RECURSIVE DeserializeAll(_, _)
DeserializeAll(bytes, curr) ==
    IF curr = Len(bytes) + 1 THEN <<>>
    ELSE LET item == Deserialize(bytes, curr)
         IN <<item>> \o DeserializeAll(bytes, item.curr)

\* Entries written to the streams given to Load.
LoadItems ==
    {<<KeyList[i], ValueList[((i - 1) % Len(ValueList)) + 1]>> :
        i \in 1..Len(KeyList)}
        \cup {<<KeyList[1], ValueList[Len(ValueList)]>>}

\* Entries written to the streams that are cut short.
LoadEntries == {<<KeyList[1], ValueList[1]>>, <<KeyList[2], ValueList[1]>>}

\* The sequences of at most n distinct elements of S.
RECURSIVE SeqsUpTo(_, _)
SeqsUpTo(S, n) ==
    IF n = 0 THEN {<<>>}
    ELSE LET shorter == SeqsUpTo(S, n - 1)
             Fresh(q) == {x \in S : \A i \in 1..Len(q) : q[i] # x}
         IN shorter \cup UNION {{Append(q, x) : x \in Fresh(q)} : q \in shorter}

RECURSIVE Encode(_)
Encode(items) ==
    IF items = <<>> THEN <<>>
    ELSE Serialize([first |-> Head(items)[1], second |-> Head(items)[2]])
            \o Encode(Tail(items))

\* Streams given to Load: what the encoder writes for at most MaxLoad entries.
Streams == {Encode(items) : items \in SeqsUpTo(LoadItems, MaxLoad)}

\* The decoding of each stream (it depends on the bytes alone).
Decoded == [bytes \in Streams |-> DeserializeAll(bytes, 1)]

\* std::for_each(iter(c.begin()), iter(c.end()), Set)
RECURSIVE LoadLoop(_, _)
LoadLoop(c, items) ==
    IF items = <<>> THEN c
    ELSE LoadLoop(Set(c, Head(items).first, Head(items).second), Tail(items))

\* Mutant of Load: the cache is not flushed first.
LoadNoFlush(c, bytes) == LoadLoop(c, Decoded[bytes])

Load(c, bytes) == LoadLoop(Flush(c), Decoded[bytes])

-----------------------------------------------------------------------------
(* Ranges and comparison *)

\* Mutant of ReverseItems: the reverse range starts at the head.
ReverseItemsFromHead(b) == Items(b)

\* The items from rbegin() to rend().
ReverseItems(b) == [i \in 1..Len(b) |-> Item(b[Len(b) + 1 - i])]

\* std::list::operator==: the same length and equal pairs at equal places.
ListEquals(a, b) ==
    /\ Len(a) = Len(b)
    /\ \A i \in 1..Len(a) : a[i].first = b[i].first /\ a[i].second = b[i].second

\* Mutant of Equals: the limits are compared too.
EqualsWithLimits(c, other) ==
    /\ ListEquals(c.buf, other.buf)
    /\ c.stats.maxsize = other.stats.maxsize
    /\ c.stats.maxmem = other.stats.maxmem

\* operator==
Equals(c, other) == ListEquals(c.buf, other.buf)

\* operator!=
NotEquals(c, other) == ~ListEquals(c.buf, other.buf)

\* A cache as the constructor leaves it.
NewCache(maxsize, maxmem) ==
    [buf |-> <<>>,
     table |-> [k \in {} |-> 0],
     stats |-> [hits |-> 0, misses |-> 0, maxsize |-> maxsize,
                currsize |-> 0, maxmem |-> maxmem, currmem |-> 0]]

\* The caches a cache is compared with: an empty one, and caches of one and
\* two entries with limits and statistics of their own.
OtherIds == 1..5

Others(n) ==
    LET fresh == NewCache(nval, nval)
        one == Set(NewCache(2, nval), KeyList[1], ValueList[1])
        two == Set(one, KeyList[2], ValueList[2])
        swapped == Get(two, KeyList[1]).cache
        other == Set(NewCache(nval, nval), KeyList[1], ValueList[2])
    IN CASE n = 1 -> fresh
         [] n = 2 -> one
         [] n = 3 -> two
         [] n = 4 -> swapped
         [] n = 5 -> other

-----------------------------------------------------------------------------
(* The calls a client makes *)

Void == [kind |-> "void", val |-> <<>>]

\* The record of a call: its arguments, and what the caller could have seen
\* just before it (was the key in the cache, and Size()).
Call(op, key, value, n, bytes) ==
    [op |-> op, key |-> key, value |-> value, n |-> n, bytes |-> bytes,
     found |-> key \in DOMAIN table, size0 |-> stats.currsize]

Becomes(c) ==
    /\ buf' = c.buf
    /\ table' = c.table
    /\ stats' = c.stats

CallSet(key, value) ==
    /\ Becomes(Set(Cache, key, value))
    /\ last' = Call("Set", key, value, 0, <<>>)
    /\ ret' = Void
    /\ UNCHANGED <<key_mem_, value_mem_, ngets, loader, safe, printer, codec>>

CallAdd(key, value) ==
    LET r == Add(Cache, key, value)
    IN /\ Becomes(r.cache)
       /\ last' = Call("Add", key, value, 0, <<>>)
       /\ ret' = r.result
       /\ UNCHANGED <<key_mem_, value_mem_, ngets, loader, safe, printer, codec>>

CallReplace(key, value) ==
    LET r == Replace(Cache, key, value)
    IN /\ Becomes(r.cache)
       /\ last' = Call("Replace", key, value, 0, <<>>)
       /\ ret' = r.result
       /\ UNCHANGED <<key_mem_, value_mem_, ngets, loader, safe, printer, codec>>

CallGet(key) ==
    LET r == Get(Cache, key)
    IN /\ ngets < MaxGets
       /\ Becomes(r.cache)
       /\ last' = Call("Get", key, <<>>, 0, <<>>)
       /\ ret' = r.result
       /\ ngets' = ngets + 1
       /\ UNCHANGED <<key_mem_, value_mem_, loader, safe, printer, codec>>

CallDelete(key) ==
    LET r == Delete(Cache, key)
    IN /\ Becomes(r.cache)
       /\ last' = Call("Delete", key, <<>>, 0, <<>>)
       /\ ret' = r.result
       /\ UNCHANGED <<key_mem_, value_mem_, ngets, loader, safe, printer, codec>>

CallFlush ==
    /\ Becomes(Flush(Cache))
    /\ last' = Call("Flush", <<>>, <<>>, 0, <<>>)
    /\ ret' = Void
    /\ UNCHANGED <<key_mem_, value_mem_, ngets, loader, safe, printer, codec>>

CallMaxsize(items) ==
    /\ Becomes(Maxsize(Cache, items))
    /\ last' = Call("Maxsize", <<>>, <<>>, items, <<>>)
    /\ ret' = Void
    /\ UNCHANGED <<key_mem_, value_mem_, ngets, loader, safe, printer, codec>>

CallMaxmem(bytes) ==
    /\ Becomes(Maxmem(Cache, bytes))
    /\ last' = Call("Maxmem", <<>>, <<>>, bytes, <<>>)
    /\ ret' = Void
    /\ UNCHANGED <<key_mem_, value_mem_, ngets, loader, safe, printer, codec>>

CallLoad(bytes) ==
    /\ Becomes(Load(Cache, bytes))
    /\ last' = Call("Load", <<>>, <<>>, 0, bytes)
    /\ ret' = Void
    /\ UNCHANGED <<key_mem_, value_mem_, ngets, loader, safe, printer, codec>>

\* Mutant of CallDump: dumping promotes the least recently used entry.
CallDumpTouches ==
    /\ last' = Call("Dump", <<>>, <<>>, 0, <<>>)
    /\ ret' = [kind |-> "bytes", val |-> Dump(Cache)]
    /\ Becomes(IF buf = <<>> THEN Cache ELSE Touch(Cache, buf[Len(buf)].node))
    /\ UNCHANGED <<key_mem_, value_mem_, ngets, loader, safe, printer, codec>>

CallDump ==
    /\ last' = Call("Dump", <<>>, <<>>, 0, <<>>)
    /\ ret' = [kind |-> "bytes", val |-> Dump(Cache)]
    /\ UNCHANGED <<buf, table, stats, key_mem_, value_mem_, ngets, loader, safe, printer, codec>>

\* for (const auto &item : cache): begin() to end()
CallIterate ==
    /\ last' = Call("Iterate", <<>>, <<>>, 0, <<>>)
    /\ ret' = [kind |-> "items", val |-> Items(buf)]
    /\ UNCHANGED <<buf, table, stats, key_mem_, value_mem_, ngets, loader, safe, printer, codec>>

\* for (auto it = cache.rbegin(); it != cache.rend(); ++it)
CallReverseIterate ==
    /\ last' = Call("ReverseIterate", <<>>, <<>>, 0, <<>>)
    /\ ret' = [kind |-> "items", val |-> ReverseItems(buf)]
    /\ UNCHANGED <<buf, table, stats, key_mem_, value_mem_, ngets, loader, safe, printer, codec>>

\* cache == Others(n)
CallEquals(n) ==
    /\ last' = Call("==", <<>>, <<>>, n, <<>>)
    /\ ret' = [kind |-> "bool", val |-> Equals(Cache, Others(n))]
    /\ UNCHANGED <<buf, table, stats, key_mem_, value_mem_, ngets, loader, safe, printer, codec>>

\* cache != Others(n)
CallNotEquals(n) ==
    /\ last' = Call("!=", <<>>, <<>>, n, <<>>)
    /\ ret' = [kind |-> "bool", val |-> NotEquals(Cache, Others(n))]
    /\ UNCHANGED <<buf, table, stats, key_mem_, value_mem_, ngets, loader, safe, printer, codec>>

-----------------------------------------------------------------------------
(* SafeCache: the engine behind a recursive mutex *)

Threads == {1, 2}

\* "a" is the SafeCache whose engine is buf, table, stats; "b" is the one it
\* is compared with, whose engine is otherCache.
Instances == {"a", "b"}

\* std::recursive_mutex: the owning thread (0: none) and its lock count.
Free == [owner |-> 0, count |-> 0]

\* Mutant of CanLock: the mutex excludes nobody.
CanLockAlways(m, t) == TRUE

\* Mutant of CanLock: std::mutex, where the owner blocks on its own lock.
CanLockPlain(m, t) == m.owner = 0

\* Can lock() by thread t return now?
CanLock(m, t) == m.owner = 0 \/ m.owner = t

DoLock(m, t) == [owner |-> t, count |-> m.count + 1]

\* Mutant of Unlock: one unlock() gives up every level of ownership.
UnlockAll(m) == Free

Unlock(m) == IF m.count <= 1 THEN Free ELSE [m EXCEPT !.count = @ - 1]

\* Operations that return a ScopeGuard, which takes the lock with it.
Guarded == {"Add", "Replace", "Get", "Delete", "==", "!="}

\* Mutant of Return: the lock is released on every return.
ReturnUnlocks(m, name) == Unlock(m)

\* The mutex as the operation leaves it on return: `Lock lock' is moved into
\* the returned ScopeGuard, `Guard guard' is destroyed.
Return(m, name) == IF name \in Guarded THEN m ELSE Unlock(m)

NoOp == [name |-> "none", inst |-> "a", key |-> <<>>, value |-> <<>>]

Op(name, inst, key, value) ==
    [name |-> name, inst |-> inst, key |-> key, value |-> value]

\* What each thread calls.
SafeOps(t) ==
    IF t = 1
    THEN {Op("Set", "a", KeyList[1], ValueList[1]),
          Op("Get", "a", KeyList[1], <<>>),
          Op("==", "a", <<>>, <<>>)}
    ELSE {Op("Set", "a", KeyList[1], ValueList[2]),
          Op("Set", "a", KeyList[2], ValueList[1]),
          Op("Delete", "a", KeyList[1], <<>>),
          Op("Flush", "a", <<>>, <<>>),
          Op("Set", "b", KeyList[1], ValueList[1])}

EngineOf(inst) == IF inst = "a" THEN Cache ELSE otherCache

\* Base::Op(...) on engine c; rhs is the engine of the right operand of ==.
Apply(c, op, rhs) ==
    CASE op.name = "Set" -> [cache |-> Set(c, op.key, op.value), result |-> Void]
      [] op.name = "Get" -> Get(c, op.key)
      [] op.name = "Delete" -> Delete(c, op.key)
      [] op.name = "Flush" -> [cache |-> Flush(c), result |-> Void]
      [] op.name = "==" ->
            [cache |-> c, result |-> [kind |-> "bool", val |-> Equals(c, rhs)]]

NoNext == [cache |-> NewCache(nval, nval), result |-> Void]

\* A thread outside every operation, holding no ScopeGuard.  `handles' are
\* the live ScopeGuards of the thread, the latest last; `ref' is the
\* reference the thread took out of a temporary ScopeGuard (none: <<>>) and
\* `used' what it last read through it.
Idle ==
    [pc |-> "idle", op |-> NoOp, next |-> NoNext, expect |-> Void,
     seen |-> {}, raced |-> FALSE, handles |-> <<>>, n |-> 0,
     ref |-> <<>>, used |-> <<>>]

\* Has the entry of key another value in engine d than in engine c, or none?
EntryChanged(c, d, key) ==
    \/ key \notin DOMAIN d.table
    \/ d.buf[PosOf(d.buf, d.table[key])].second
            # c.buf[PosOf(c.buf, c.table[key])].second

\* The reference of thread record th after thread t turned engine c into d:
\* `by' are the threads that wrote the referenced value since the Get
\* returned, `freed' tells that its node was erased.
Referring(th, t, c, d) ==
    IF th.ref = <<>> \/ th.ref[1].freed THEN th
    ELSE LET key == th.ref[1].key
         IN IF EntryChanged(c, d, key)
            THEN [th EXCEPT !.ref[1].by = @ \cup {t},
                            !.ref[1].freed = key \notin DOMAIN d.table]
            ELSE th

\* Nothing was printed and nothing is being encoded.
NoPrint ==
    /\ out = <<>>
    /\ static_m = 0
    /\ expected = <<>>

NoCodec == codec = [pc |-> "none"]

NoThreads ==
    /\ mutex_ = [x \in Instances |-> Free]
    /\ otherCache = NewCache(nval, nval)
    /\ thread = [t \in Threads |-> Idle]
    /\ serial = NewCache(nval, nval)

\* Thread t calls an operation and arrives at its lock.
Request(t, op) ==
    /\ thread[t].pc = "idle"
    /\ op.name \in Guarded => Len(thread[t].handles) < MaxHandles
    /\ IF op.name = "Get"
       THEN ngets < MaxGets /\ ngets' = ngets + 1
       ELSE ngets' = ngets
    /\ thread' = [thread EXCEPT ![t].pc = "waiting", ![t].op = op]
    /\ UNCHANGED <<buf, table, stats, key_mem_, value_mem_, last, ret, loader, printer, codec,
                   mutex_, otherCache, serial>>

\* Lock lock(mutex_) or Guard guard(mutex_) returns.  The operation takes its
\* place in the order of lock acquisition on "a": `expect' is what the engine
\* returns when the operations run one after another in that order.
Acquire(t) ==
    LET op == thread[t].op
        r == Apply(serial, op, otherCache)
    IN /\ thread[t].pc = "waiting"
       /\ CanLock(mutex_[op.inst], t)
       /\ mutex_' = [mutex_ EXCEPT ![op.inst] = DoLock(@, t)]
       /\ IF op.inst = "a" /\ op.name # "=="
          THEN /\ serial' = r.cache
               /\ thread' = [thread EXCEPT ![t].pc = "locked",
                                           ![t].expect = r.result]
          ELSE /\ serial' = serial
               /\ thread' = [thread EXCEPT ![t].pc = "locked"]
       /\ UNCHANGED <<buf, table, stats, key_mem_, value_mem_, last, ret, ngets,
                      loader, printer, codec, otherCache>>

\* Base::Op(...) reads the engine (and, in ==, other.buf_).  `seen' collects
\* what the comparison of the two lists is at each instant of the comparison.
Run(t) ==
    LET op == thread[t].op
        r == Apply(EngineOf(op.inst), op, otherCache)
    IN /\ thread[t].pc = "locked"
       /\ thread' = [thread EXCEPT ![t].pc = "running",
                                   ![t].next = r,
                                   ![t].seen = IF op.name = "=="
                                               THEN {r.result.val} ELSE {}]
       /\ UNCHANGED <<buf, table, stats, key_mem_, value_mem_, last, ret, ngets,
                      loader, printer, codec, mutex_, otherCache, serial>>

\* Is thread u inside Base::operator==, reading other.buf_?
Comparing(u) == thread[u].pc = "running" /\ thread[u].op.name = "=="

\* Base::Op(...) writes the engine and the operation returns; the returned
\* ScopeGuard joins the handles of the thread.  A write to "b" while
\* Base::operator== of another thread reads it is a data race: that
\* comparison may return either answer.
Commit(t) ==
    LET op == thread[t].op
        next == thread[t].next
    IN /\ thread[t].pc = "running"
       /\ IF op.inst = "a"
          THEN Becomes(next.cache) /\ otherCache' = otherCache
          ELSE otherCache' = next.cache /\ UNCHANGED <<buf, table, stats>>
       /\ mutex_' = [mutex_ EXCEPT ![op.inst] = Return(@, op.name)]
       /\ \E result \in IF thread[t].raced
                        THEN {[kind |-> "bool", val |-> b] : b \in BOOLEAN}
                        ELSE {next.result} :
            thread' = [u \in Threads |->
                IF u = t
                THEN Referring(
                       [Idle EXCEPT
                          !.handles =
                              IF op.name \in Guarded
                              THEN Append(thread[t].handles,
                                          [op |-> op, ret |-> result,
                                           expect |-> thread[t].expect,
                                           seen |-> thread[t].seen])
                              ELSE thread[t].handles,
                          !.ref = thread[t].ref,
                          !.used = thread[t].used],
                       t, EngineOf(op.inst), next.cache)
                ELSE IF op.inst = "b" /\ Comparing(u)
                THEN [thread[u] EXCEPT !.raced = TRUE,
                                       !.seen = @ \cup {Equals(Cache, next.cache)}]
                ELSE IF op.inst = "a"
                THEN Referring(thread[u], t, Cache, next.cache)
                ELSE thread[u]]
       /\ UNCHANGED <<key_mem_, value_mem_, last, ret, ngets, loader, printer, codec, serial>>

\* ~ScopeGuard(): the latest live handle of thread t is destroyed.
Discard(t) ==
    /\ thread[t].pc = "idle"
    /\ thread[t].handles # <<>>
    /\ thread' = [thread EXCEPT ![t].handles = SubSeq(@, 1, Len(@) - 1)]
    /\ mutex_' = [mutex_ EXCEPT !["a"] = Unlock(@)]
    /\ UNCHANGED <<buf, table, stats, key_mem_, value_mem_, last, ret, ngets,
                   loader, printer, codec, otherCache, serial>>

\* Mutant of DestroyGuard: the destroyed handle keeps the mutex locked.
DestroyKeeps(m) == m

\* ~BaseGuard(): lock_.unlock()
DestroyGuard(m) == Unlock(m)

\* cache.Get(key).value().get() as a temporary: the full-expression ends,
\* the ScopeGuard that Get returned is destroyed and the thread keeps the
\* reference to the value.
Extract(t) ==
    LET h == thread[t].handles[Len(thread[t].handles)]
    IN /\ thread[t].pc = "idle"
       /\ thread[t].handles # <<>>
       /\ h.op.name = "Get"
       /\ h.ret.kind = "value"
       /\ thread' = [thread EXCEPT
                        ![t].handles = SubSeq(@, 1, Len(@) - 1),
                        ![t].ref = <<[key |-> h.op.key, val |-> h.ret.val,
                                      by |-> {}, freed |-> FALSE]>>,
                        ![t].used = <<>>]
       /\ mutex_' = [mutex_ EXCEPT !["a"] = DestroyGuard(@)]
       /\ UNCHANGED <<buf, table, stats, key_mem_, value_mem_, last, ret, ngets,
                      loader, printer, codec, otherCache, serial>>

\* What a read through a reference to an erased node may give: the node was
\* freed, the read is undefined.
Dangling == Values \cup {<<>>}

\* The thread reads the value through the reference it kept.
Use(t) ==
    LET r == thread[t].ref[1]
    IN /\ thread[t].pc = "idle"
       /\ thread[t].ref # <<>>
       /\ thread[t].used = <<>>
       /\ \E v \in IF r.freed THEN Dangling ELSE {buf[PosOf(buf, table[r.key])].second} :
             thread' = [thread EXCEPT ![t].used = <<v>>]
       /\ UNCHANGED <<buf, table, stats, key_mem_, value_mem_, last, ret, ngets,
                      loader, printer, codec, mutex_, otherCache, serial>>

\* What each thread calls around a Get used as a temporary.
TempOps(t) ==
    IF t = 1
    THEN {Op("Set", "a", KeyList[1], ValueList[1]),
          Op("Get", "a", KeyList[1], <<>>)}
    ELSE {Op("Set", "a", KeyList[1], ValueList[2]),
          Op("Delete", "a", KeyList[1], <<>>)}

-----------------------------------------------------------------------------
(* operator<<(std::ostream &, const SafeCache &) *)

\* One line of the stream.  `by' is the thread that wrote it: it is not in
\* the text, it tells the lines of two prints apart.
Line(kind, by, text) == [kind |-> kind, by |-> by, text |-> text]

HeaderLine(t) == Line("header", t, <<>>)

StatsLine(t, st) == Line("stats", t, <<st>>)

\* "{n}: [{key}] = '{value}'"
ItemToStr(item, n) == <<n, item.first, item.second>>

ItemLine(t, item, n) == Line("item", t, ItemToStr(item, n))

\* The block that a print of engine c by thread t is.
PrintOf(c, t) ==
    <<HeaderLine(t), StatsLine(t, c.stats)>>
        \o [i \in 1..Len(c.buf) |-> ItemLine(t, c.buf[i], i - 1)]

\* Prints begun so far.
Prints ==
    Cardinality({i \in DOMAIN expected : expected[i].kind = "header"})
        + Cardinality({t \in Threads : thread[t].pc = "<<"})

\* Mutant of CanLockBoth: only the mutex of the stream is taken.
CanLockStream(m, c, t) == m = 0

\* Can std::scoped_lock guard{m, cache.mutex_} of thread t return now?  It
\* holds neither mutex while it waits for the other.
CanLockBoth(m, c, t) == m = 0 /\ CanLock(c, t)

\* Thread t calls out << cache on "a" and arrives at the scoped_lock.
PrintCall(t) ==
    /\ thread[t].pc = "idle"
    /\ Prints < MaxPrints
    /\ thread' = [thread EXCEPT ![t].pc = "<<"]
    /\ UNCHANGED <<buf, table, stats, key_mem_, value_mem_, last, ret, ngets,
                   loader, printer, codec, mutex_, otherCache, serial>>

\* The scoped_lock returns.  `expected' is the stream if every print wrote
\* its whole block at the instant it took the locks.
PrintLock(t) ==
    /\ thread[t].pc = "<<"
    /\ CanLockBoth(static_m, mutex_["a"], t)
    /\ static_m' = t
    /\ mutex_' = [mutex_ EXCEPT !["a"] = DoLock(@, t)]
    /\ expected' = expected \o PrintOf(Cache, t)
    /\ thread' = [thread EXCEPT ![t].pc = "header"]
    /\ UNCHANGED <<buf, table, stats, key_mem_, value_mem_, last, ret, ngets,
                   loader, codec, out, otherCache, serial>>

\* out << name << " at " << &cache << '\n'
PrintHeader(t) ==
    /\ thread[t].pc = "header"
    /\ out' = Append(out, HeaderLine(t))
    /\ thread' = [thread EXCEPT ![t].pc = "stats"]
    /\ UNCHANGED <<buf, table, stats, key_mem_, value_mem_, last, ret, ngets,
                   loader, codec, static_m, expected, mutex_, otherCache, serial>>

\* out << cache.Stats() << '\n': Stats() locks mutex_ once more and its
\* ScopeGuard unlocks it at the end of the statement.
PrintStats(t) ==
    /\ thread[t].pc = "stats"
    /\ CanLock(mutex_["a"], t)
    /\ out' = Append(out, StatsLine(t, stats))
    /\ thread' = [thread EXCEPT ![t].pc = "items", ![t].n = 0]
    /\ UNCHANGED <<buf, table, stats, key_mem_, value_mem_, last, ret, ngets,
                   loader, codec, static_m, expected, mutex_, otherCache, serial>>

\* One turn of the loop over the list: out << aux::ItemToStr(item, n) << '\n'
PrintItem(t) ==
    LET n == thread[t].n
    IN /\ thread[t].pc = "items"
       /\ n < Len(buf)
       /\ out' = Append(out, ItemLine(t, buf[n + 1], n))
       /\ thread' = [thread EXCEPT ![t].n = n + 1]
       /\ UNCHANGED <<buf, table, stats, key_mem_, value_mem_, last, ret, ngets,
                      loader, codec, static_m, expected, mutex_, otherCache,
                      serial>>

\* The loop is at end(): the stream is flushed and the scoped_lock unlocks
\* both mutexes.
PrintDone(t) ==
    /\ thread[t].pc = "items"
    /\ thread[t].n >= Len(buf)
    /\ static_m' = 0
    /\ mutex_' = [mutex_ EXCEPT !["a"] = Unlock(@)]
    /\ thread' = [thread EXCEPT ![t].pc = "idle", ![t].n = 0]
    /\ UNCHANGED <<buf, table, stats, key_mem_, value_mem_, last, ret, ngets,
                   loader, codec, out, expected, otherCache, serial>>

\* What each thread calls while the other prints.
PrintOps(t) ==
    IF t = 1
    THEN {Op("Set", "a", KeyList[1], ValueList[1])}
    ELSE {Op("Set", "a", KeyList[2], ValueList[2]),
          Op("Delete", "a", KeyList[1], <<>>)}

-----------------------------------------------------------------------------
(* Load, one read of the input at a time *)

\* No Load is in progress.
NoFrame == [i |-> 0, size |-> 0, n |-> 0, res |-> <<>>, key |-> <<>>]

NoLoad ==
    /\ stream = [kind |-> "none", bytes |-> <<>>]
    /\ curr_ = 1
    /\ frame = NoFrame
    /\ pc = "idle"
    /\ past = FALSE

\* `last' of the input range: the position after its last byte.
End == Len(stream.bytes) + 1

\* What a read at or beyond `last' can give (the behaviour is undefined):
\* whatever byte lies behind a contiguous buffer, the end-of-file value of a
\* stream buffer iterator.
Garbage == IF stream.kind = "stream" THEN {255} ELSE {0, 50}

\* The bytes *curr_ can give.
Deref == IF curr_ < End THEN {stream.bytes[curr_]} ELSE Garbage

\* ++curr_: a stream buffer iterator at the end of the file stays there.
Incr(it) == IF stream.kind = "stream" /\ it >= End THEN it ELSE it + 1

\* The call: Flush(), then std::for_each(iter(first), iter(last), ...).
LoadBegin(kind, bytes) ==
    /\ pc = "idle"
    /\ Becomes(Flush(Cache))
    /\ stream' = [kind |-> kind, bytes |-> bytes]
    /\ curr_' = 1
    /\ frame' = NoFrame
    /\ pc' = "for_each"
    /\ last' = Call("Load", <<>>, <<>>, 0, bytes)
    /\ ret' = Void
    /\ UNCHANGED <<safe, printer, codec, key_mem_, value_mem_, ngets, past>>

\* for_each: first != last compares the wrapped iterators; two stream buffer
\* iterators are equal when both are at the end of the file.
ForEachTest ==
    /\ pc = "for_each"
    /\ IF curr_ = End
       THEN pc' = "returned"
       ELSE pc' = "key_size"
    /\ frame' = NoFrame
    /\ UNCHANGED <<safe, printer, codec, buf, table, stats, key_mem_, value_mem_, last, ret, ngets,
                   stream, curr_, past>>

\* size |= static_cast<Size>(*it) << i * 8 for a size that stays below
\* SizeMod; anything larger is kept as SizeMod.
SizeOr(size, byte, i) ==
    IF byte = 0 THEN size
    ELSE IF i >= 2 \/ size >= SizeMod THEN SizeMod
    ELSE size + Shl8(byte, i)

\* One turn of the loop of DecodeSize; after the last turn the chunk is read.
DecodeSizeStep ==
    /\ pc \in {"key_size", "value_size"}
    /\ frame.i < SizeofSize
    /\ curr_ < End + MaxPast
    /\ \E byte \in Deref :
          frame' = [frame EXCEPT !.i = @ + 1, !.size = SizeOr(@, byte, frame.i)]
    /\ past' = (past \/ curr_ >= End)
    /\ curr_' = Incr(curr_)
    /\ pc' = IF frame.i + 1 < SizeofSize THEN pc
             ELSE IF pc = "key_size" THEN "key_chunk" ELSE "value_chunk"
    /\ UNCHANGED <<safe, printer, codec, buf, table, stats, key_mem_, value_mem_, last, ret, ngets,
                   stream>>

\* The chunk is complete: Serde::Deserialize gives the key or the value.
ChunkDone(res) ==
    IF pc = "key_chunk"
    THEN /\ frame' = [NoFrame EXCEPT !.key = DeserializeSeq(res)]
         /\ pc' = "value_size"
    ELSE /\ frame' = [frame EXCEPT !.res = DeserializeSeq(res)]
         /\ pc' = "set"

\* DeserializeChunk over a contiguous range: a view of `size' bytes at curr_
\* is deserialized and curr_ advanced by size.
ViewChunk ==
    /\ pc \in {"key_chunk", "value_chunk"}
    /\ stream.kind = "contiguous"
    /\ frame.size <= MaxChunk
    /\ curr_ + frame.size <= End + MaxPast
    /\ \E byte \in Garbage :
          ChunkDone([n \in 1..frame.size |->
                        IF curr_ + n - 1 < End
                        THEN stream.bytes[curr_ + n - 1] ELSE byte])
    /\ past' = (past \/ curr_ + frame.size > End)
    /\ curr_' = curr_ + frame.size
    /\ UNCHANGED <<safe, printer, codec, buf, table, stats, key_mem_, value_mem_, last, ret, ngets,
                   stream>>

\* One turn of the loop of ReadChunk (a single-pass range), or its end.
ReadChunk ==
    /\ pc \in {"key_chunk", "value_chunk"}
    /\ stream.kind = "stream"
    /\ frame.size <= MaxChunk
    /\ IF frame.n < frame.size
       THEN /\ \E byte \in Deref :
                  frame' = [frame EXCEPT !.n = @ + 1, !.res = Append(@, byte)]
            /\ past' = (past \/ curr_ >= End)
            /\ curr_' = Incr(curr_)
            /\ pc' = pc
       ELSE /\ ChunkDone(frame.res)
            /\ UNCHANGED <<curr_, past>>
    /\ UNCHANGED <<safe, printer, codec, buf, table, stats, key_mem_, value_mem_, last, ret, ngets,
                   stream>>

\* The body of for_each: Set(item.first, std::move(item.second)).
SetItem ==
    /\ pc = "set"
    /\ Becomes(Set(Cache, frame.key, frame.res))
    /\ frame' = NoFrame
    /\ pc' = "for_each"
    /\ UNCHANGED <<safe, printer, codec, key_mem_, value_mem_, last, ret, ngets, stream, curr_, past>>

\* A read outside the input can also end the program (a trap, a failed
\* allocation for a chunk of a size read from garbage).
Trap ==
    /\ pc \in {"key_size", "value_size", "key_chunk", "value_chunk"}
    /\ \/ curr_ >= End
       \/ pc \in {"key_chunk", "value_chunk"} /\ curr_ + frame.size > End
    /\ pc' = "trap"
    /\ past' = TRUE
    /\ ret' = [kind |-> "trap", val |-> <<>>]
    /\ UNCHANGED <<safe, printer, codec, buf, table, stats, key_mem_, value_mem_, last, ngets,
                   stream, curr_, frame>>

\* The inputs given to Load: the bytes written for the entries, whole or cut
\* after any number of bytes, as a contiguous container or as a stream.
Cuts(bytes) == {SubSeq(bytes, 1, n) : n \in 0..Len(bytes)}

Inputs ==
    UNION {Cuts(Encode(items)) : items \in SeqsUpTo(LoadEntries, MaxEntries)}

\* A cache with an entry in it, or none.
InitLoad ==
    /\ key_mem_ = nullptr
    /\ value_mem_ = nullptr
    /\ \E c \in {NewCache(nval, nval),
                 Set(NewCache(nval, nval), KeyList[3], ValueList[2])} :
          /\ buf = c.buf
          /\ table = c.table
          /\ stats = c.stats
    /\ last = [op |-> "Cache", key |-> <<>>, value |-> <<>>, n |-> 2,
               bytes |-> <<>>, found |-> FALSE, size0 |-> 0]
    /\ ret = Void
    /\ ngets = 0
    /\ NoLoad
    /\ NoThreads
        /\ NoPrint
        /\ NoCodec

NextLoad ==
    \/ \E kind \in {"contiguous", "stream"}, bytes \in Inputs :
          LoadBegin(kind, bytes)
    \/ ForEachTest
    \/ DecodeSizeStep
    \/ ViewChunk
    \/ ReadChunk
    \/ SetItem
    \/ Trap

SpecLoad == InitLoad /\ [][NextLoad]_vars

-----------------------------------------------------------------------------
(* Specification *)

\* The argument lists given to the constructor: none, or all four.
CtorArgs ==
    {<<>>} \cup {<<maxsize, maxmem, hints[1], hints[2]>> :
                    maxsize \in SizeLimits, maxmem \in MemLimits, hints \in Hints}

\* The i-th argument, or the default the declaration gives it.
Arg(args, i, default) == IF i <= Len(args) THEN args[i] ELSE default

\* Cache(maxsize = nval, maxmem = nval, key_mem = nullptr, value_mem = nullptr);
\* last.n is the number of arguments given.
Init ==
    \E args \in CtorArgs :
        /\ buf = <<>>
        /\ table = [k \in {} |-> 0]
        /\ stats = [hits |-> 0, misses |-> 0, maxsize |-> Arg(args, 1, nval),
                    currsize |-> 0, maxmem |-> Arg(args, 2, nval), currmem |-> 0]
        /\ key_mem_ = Arg(args, 3, nullptr)
        /\ value_mem_ = Arg(args, 4, nullptr)
        /\ last = [op |-> "Cache", key |-> <<>>, value |-> <<>>, n |-> Len(args),
                   bytes |-> <<>>, found |-> FALSE, size0 |-> 0]
        /\ ret = Void
        /\ ngets = 0
        /\ NoLoad
        /\ NoThreads
        /\ NoPrint
        /\ NoCodec

Next ==
    \/ \E key \in Keys, value \in Values : CallSet(key, value)
    \/ \E key \in Keys, value \in Values : CallAdd(key, value)
    \/ \E key \in Keys, value \in Values : CallReplace(key, value)
    \/ \E key \in Keys : CallGet(key)
    \/ \E key \in Keys : CallDelete(key)
    \/ CallFlush
    \/ \E items \in SizeLimits : CallMaxsize(items)
    \/ \E bytes \in MemLimits : CallMaxmem(bytes)
    \/ \E bytes \in Streams : CallLoad(bytes)
    \/ CallDump
    \/ CallIterate
    \/ CallReverseIterate
    \/ \E n \in OtherIds : CallEquals(n)
    \/ \E n \in OtherIds : CallNotEquals(n)

Spec == Init /\ [][Next]_vars

\* cache.Get(key)->get() = value: the caller assigns to the stored value
\* through the reference Get returns.  The cache is not told.
CallModify(key, value) ==
    LET r == Get(Cache, key)
    IN /\ ngets < MaxGets
       /\ key \in DOMAIN table
       /\ Becomes([r.cache EXCEPT !.buf[1].second = value])
       /\ last' = Call("Modify", key, value, 0, <<>>)
       /\ ret' = r.result
       /\ ngets' = ngets + 1
       /\ UNCHANGED <<key_mem_, value_mem_, loader, safe, printer, codec>>

\* Does the loop of Maxmem end?  Pop returns at once on an empty list, and
\* then currmem stays what it is.
RECURSIVE MaxmemEnds(_, _)
MaxmemEnds(c, bytes) ==
    IF c.stats.currmem <= bytes THEN TRUE
    ELSE IF c.buf = <<>> THEN FALSE
    ELSE MaxmemEnds(Pop(c), bytes)

RECURSIVE PopAll(_)
PopAll(c) == IF c.buf = <<>> THEN c ELSE PopAll(Pop(c))

\* Maxmem(bytes), which returns when its loop ends and else spins for ever
\* on the emptied cache.
CallMaxmemLoop(bytes) ==
    IF MaxmemEnds(Cache, bytes)
    THEN CallMaxmem(bytes)
    ELSE /\ Becomes(PopAll(Cache))
         /\ last' = Call("Maxmem", <<>>, <<>>, bytes, <<>>)
         /\ ret' = [kind |-> "spin", val |-> <<>>]
         /\ UNCHANGED <<key_mem_, value_mem_, ngets, loader, safe, printer, codec>>

\* The last call has returned.
Returned == ret.kind # "spin"

\* The calls of a client that also writes to stored values in place.
NextModify ==
    \/ \E key \in Keys, value \in Values : Returned /\ CallSet(key, value)
    \/ \E key \in Keys, value \in Values : Returned /\ CallAdd(key, value)
    \/ \E key \in Keys, value \in Values : Returned /\ CallReplace(key, value)
    \/ \E key \in Keys : Returned /\ CallGet(key)
    \/ \E key \in Keys : Returned /\ CallDelete(key)
    \/ Returned /\ CallFlush
    \/ \E items \in SizeLimits : Returned /\ CallMaxsize(items)
    \/ \E bytes \in MemLimits : Returned /\ CallMaxmemLoop(bytes)
    \/ \E key \in Keys, value \in Values : Returned /\ CallModify(key, value)

SpecModify == Init /\ [][NextModify]_vars

\* The element types of the input of Load (serde::byte): unsigned char and
\* uint8_t; signed char, int8_t, and char where the build makes it signed.
ElemTypes == {"unsigned char", "signed char"}

\* The chunk lengths encoded.
Lengths == 0..MaxLength \cup {40000, 65535, 8388736}

\* A serde::Size as its 8 bytes, least significant first.
ZeroSize == [j \in 1..SizeofSize |-> 0]

RECURSIVE OrBits(_, _, _)
OrBits(a, b, n) ==
    IF n = 0 THEN 0
    ELSE (IF a % 2 = 1 \/ b % 2 = 1 THEN 1 ELSE 0)
         + 2 * OrBits(a \div 2, b \div 2, n - 1)

\* x | y
SizeOrBytes(x, y) == [j \in 1..SizeofSize |-> OrBits(x[j], y[j], 8)]

\* x << i * 8
SizeShl(x, i) == [j \in 1..SizeofSize |-> IF j <= i THEN 0 ELSE x[j - i]]

\* static_cast<Size>(*it) for an element holding `byte': a negative element
\* is sign-extended.
Widen(byte, elem) ==
    [j \in 1..SizeofSize |->
        IF j = 1 THEN byte
        ELSE IF elem = "signed char" /\ byte >= 128 THEN 255 ELSE 0]

\* EncodeSize: res.push_back(byte[i]).
EncodeByte ==
    /\ codec.pc = "encode"
    /\ codec' = [codec EXCEPT
                    !.bytes = Append(@, Shr8(codec.length, codec.i) % 256),
                    !.i = IF codec.i + 1 = SizeofSize THEN 0 ELSE @ + 1,
                    !.pc = IF codec.i + 1 = SizeofSize THEN "decode" ELSE @]
    /\ UNCHANGED <<buf, table, stats, key_mem_, value_mem_, last, ret, ngets,
                   loader, safe, printer>>

\* DecodeSize: size |= static_cast<Size>(*it) << i * 8; ++it.
DecodeByte ==
    /\ codec.pc = "decode"
    /\ codec' = [codec EXCEPT
                    !.size = SizeOrBytes(@, SizeShl(Widen(codec.bytes[codec.i + 1],
                                                          codec.elem), codec.i)),
                    !.i = @ + 1,
                    !.pc = IF codec.i + 1 = SizeofSize THEN "done" ELSE @]
    /\ UNCHANGED <<buf, table, stats, key_mem_, value_mem_, last, ret, ngets,
                   loader, safe, printer>>

InitCodec ==
    /\ key_mem_ = nullptr
    /\ value_mem_ = nullptr
    /\ buf = <<>>
    /\ table = [k \in {} |-> 0]
    /\ stats = NewCache(nval, nval).stats
    /\ last = Call("EncodeSize", <<>>, <<>>, 0, <<>>)
    /\ ret = Void
    /\ ngets = 0
    /\ NoLoad
    /\ NoThreads
    /\ NoPrint
    /\ \E elem \in ElemTypes, length \in Lengths :
          codec = [pc |-> "encode", elem |-> elem, length |-> length,
                   bytes |-> <<>>, i |-> 0, size |-> ZeroSize]

NextCodec == EncodeByte \/ DecodeByte

\* One length is encoded and the 8 bytes are decoded from an input of one of
\* the element types.
SpecCodec == InitCodec /\ [][NextCodec]_vars

\* Two threads share the SafeCache "a" and a second instance "b".
InitSafe ==
    /\ key_mem_ = nullptr
    /\ value_mem_ = nullptr
    /\ buf = <<>>
    /\ table = [k \in {} |-> 0]
    /\ stats = NewCache(nval, nval).stats
    /\ last = Call("SafeCache", <<>>, <<>>, 0, <<>>)
    /\ ret = Void
    /\ ngets = 0
    /\ NoLoad
    /\ mutex_ = [x \in Instances |-> Free]
    /\ otherCache = Set(NewCache(nval, nval), KeyList[1], ValueList[2])
    /\ thread = [t \in Threads |-> Idle]
    /\ serial = NewCache(nval, nval)
    /\ NoPrint
    /\ NoCodec

NextSafe ==
    \/ \E t \in Threads : \E op \in SafeOps(t) : Request(t, op)
    \/ \E t \in Threads : Acquire(t)
    \/ \E t \in Threads : Run(t)
    \/ \E t \in Threads : Commit(t)
    \/ \E t \in Threads : Discard(t)

SpecSafe == InitSafe /\ [][NextSafe]_vars

NextPrint ==
    \/ \E t \in Threads : \E op \in PrintOps(t) : Request(t, op)
    \/ \E t \in Threads : Acquire(t)
    \/ \E t \in Threads : Run(t)
    \/ \E t \in Threads : Commit(t)
    \/ \E t \in Threads : PrintCall(t)
    \/ \E t \in Threads : PrintLock(t)
    \/ \E t \in Threads : PrintHeader(t)
    \/ \E t \in Threads : PrintStats(t)
    \/ \E t \in Threads : PrintItem(t)
    \/ \E t \in Threads : PrintDone(t)

\* The threads of SpecSafe under a scheduler: a thread inside an operation
\* takes its next step, and a thread at lock() gets the mutex if it is free
\* again and again.  What a thread calls and when it discards a handle is
\* up to the thread.
SafeFairness ==
    \A t \in Threads :
        /\ SF_vars(Acquire(t))
        /\ WF_vars(Run(t))
        /\ WF_vars(Commit(t))

SpecSafeFair == SpecSafe /\ SafeFairness

NextTemp ==
    \/ \E t \in Threads : \E op \in TempOps(t) : Request(t, op)
    \/ \E t \in Threads : Acquire(t)
    \/ \E t \in Threads : Run(t)
    \/ \E t \in Threads : Commit(t)
    \/ \E t \in Threads : Discard(t)
    \/ \E t \in Threads : Extract(t)
    \/ \E t \in Threads : Use(t)

\* Two threads on the SafeCache "a"; the results of Get are kept in named
\* variables or used as temporaries.
SpecTemp == InitSafe /\ [][NextTemp]_vars

\* Two threads print the SafeCache "a" to one stream and change it.
SpecPrint == InitSafe /\ [][NextPrint]_vars

-----------------------------------------------------------------------------
(* Properties *)

Min2(a, b) == IF a < b THEN a ELSE b
Take(s, n) == SubSeq(s, 1, Min2(n, Len(s)))
IsPrefix(s, t) == Len(s) <= Len(t) /\ s = SubSeq(t, 1, Len(s))
PositionsOf(b, key) == {i \in 1..Len(b) : b[i].first = key}
ValueAt(b, key) == b[CHOOSE i \in PositionsOf(b, key) : TRUE].second
Modifying == {"Set", "Add", "Replace", "Get"}
Inserting == {"Set", "Add"}

\* C1: after every call, Size() <= Maxsize() unless maxsize is the unbounded
\* sentinel.
C1_SizeWithinMaxsize == stats.maxsize # nval => Size <= stats.maxsize

\* A new key was inserted into a cache that already held maxsize = 2 entries.
C1_Witness ==
    /\ last.op \in Inserting
    /\ ~last.found
    /\ stats.maxsize = 2
    /\ last.size0 = 2
    /\ Size = 2

\* C2: after every call, Memory() <= Maxmem() unless maxmem is the unbounded
\* sentinel, also when cost hints give the entries different costs.
C2_MemoryWithinMaxmem == stats.maxmem # nval => Memory <= stats.maxmem

\* C3: inserting a new key into a cache that holds maxsize entries removes
\* exactly the entry at the tail: what remains is the new entry followed by
\* the old entries without the last one (nothing at all for maxsize = 0), so
\* that n + 1 distinct insertions leave the n most recent keys.
C3_InsertEvictsTail ==
    [][(/\ last'.op \in Inserting
        /\ last'.key \notin DOMAIN table
        /\ Size = stats.maxsize)
       => Items(buf') = Take(<< <<last'.key, last'.value>> >> \o Items(buf),
                             stats.maxsize)]_vars

\* The third distinct key went into a cache of maxsize 2 and is at the head.
C3_Witness ==
    /\ last.op = "Set"
    /\ ~last.found
    /\ stats.maxsize = 2
    /\ last.size0 = 2
    /\ Len(buf) = 2
    /\ buf[1].first = last.key

\* C4: after a Set, Add, Replace or Get, the key of the call, if it is in the
\* cache when the call returns, is the first entry of the iteration order.
C4_TouchedKeyAtHead ==
    (last.op \in Modifying /\ last.key \in DOMAIN table)
        => (buf # <<>> /\ buf[1].first = last.key)

\* A failed Add on a cache of three entries.
C4_Witness ==
    /\ last.op = "Add"
    /\ last.found
    /\ Len(buf) = 3
    /\ buf[1].first = last.key

\* The entries the writer put into each stream, and the value it wrote last
\* for a key.
Written ==
    [bytes \in Streams |->
        CHOOSE items \in SeqsUpTo(LoadItems, MaxLoad) : Encode(items) = bytes]
LastWritten(items, key) ==
    LET at == {i \in 1..Len(items) : items[i][1] = key}
    IN items[CHOOSE i \in at : \A j \in at : j <= i][2]

\* The value a call stores for key k (<<>> when it stores none): Set, a
\* successful Add, a successful Replace, Load.
StoredBy(call, k, present) ==
    IF call.op = "Load"
    THEN IF \E i \in 1..Len(Written[call.bytes]) : Written[call.bytes][i][1] = k
         THEN LastWritten(Written[call.bytes], k)
         ELSE <<>>
    ELSE IF call.key = k /\ \/ call.op = "Set"
                            \/ call.op = "Add" /\ ~present
                            \/ call.op = "Replace" /\ present
         THEN call.value
         ELSE <<>>

\* C5: Get(k) on a present key returns the value stored for k, moves k to
\* the head and adds 1 to hits, leaving misses, Size(), Memory() and the
\* limits unchanged; and the value stored for a key is the one given by the
\* latest Set, successful Add, successful Replace or Load that stored one
\* for it: no other call (a failed Add among them) changes it.
C5_GetReturnsStored ==
    [][/\ (last'.op = "Get" /\ last'.key \in DOMAIN table)
            => /\ ret'.kind = "value"
               /\ ret'.val = ValueAt(buf, last'.key)
               /\ buf'[1].first = last'.key
               /\ stats' = [stats EXCEPT !.hits = stats.hits + 1]
       /\ \A k \in DOMAIN table' :
            LET v == StoredBy(last', k, k \in DOMAIN table)
            IN IF v # <<>>
               THEN ValueAt(buf', k) = v
               ELSE k \in DOMAIN table /\ ValueAt(buf', k) = ValueAt(buf, k)]_vars

\* A Get found its key behind another entry holding a different value.
C5_Witness ==
    /\ last.op = "Get"
    /\ ret.kind = "value"
    /\ stats.hits = 1
    /\ Len(buf) >= 2
    /\ buf[1].second = ret.val
    /\ buf[2].second # ret.val

\* C6: the keys of the index are the keys of the recency order, no key
\* occurs twice in the order, every index entry refers to the node holding
\* its key, and Size() is the number of entries.
C6_IndexMatchesOrder ==
    /\ DOMAIN table = KeysOf(buf)
    /\ \A i, j \in 1..Len(buf) : buf[i].first = buf[j].first => i = j
    /\ \A k \in DOMAIN table :
          \E i \in 1..Len(buf) : buf[i].node = table[k] /\ buf[i].first = k
    /\ Size = Len(buf)
    /\ Size = Cardinality(DOMAIN table)

\* Maxsize(2) shrank a cache of three entries.
C6_Witness ==
    /\ last.op = "Maxsize"
    /\ last.size0 = 3
    /\ Len(buf) = 2

\* The cost of an entry as documented: kItemMem + 2 * keyHint + valueHint.
EntryCost(e) ==
    kItemMem + 2 * (IF key_mem_ = nullptr THEN 0 ELSE Len(e.first))
             + (IF value_mem_ = nullptr THEN 0 ELSE Len(e.second))

RECURSIVE TotalCost(_)
TotalCost(b) == IF b = <<>> THEN 0 ELSE EntryCost(Head(b)) + TotalCost(Tail(b))

\* C7: Memory() is the sum of the costs of the live entries; without hints
\* it is Size() * kItemMem.
C7_MemoryIsSumOfCosts ==
    /\ Memory = TotalCost(buf)
    /\ (key_mem_ = nullptr /\ value_mem_ = nullptr) => Memory = Size * kItemMem

\* With hints, a Replace changed the value of one of two entries.
C7_Witness ==
    /\ key_mem_ # nullptr
    /\ value_mem_ # nullptr
    /\ last.op = "Replace"
    /\ last.found
    /\ Len(buf) = 2
    /\ buf[1].second # buf[2].second

\* C8: hits grows by 1 on a Get of a present key and misses by 1 on a Get of
\* an absent key; no other call changes either, and hits + misses is the
\* number of Get calls made.
C8_StatsAccounting ==
    [][LET hit == last'.op = "Get" /\ last'.key \in DOMAIN table
           miss == last'.op = "Get" /\ last'.key \notin DOMAIN table
       IN /\ stats'.hits = IF hit THEN stats.hits + 1 ELSE stats.hits
          /\ stats'.misses = IF miss THEN stats.misses + 1 ELSE stats.misses
          /\ stats'.hits + stats'.misses = ngets']_vars

\* A Flush after a hit.
C8_Witness ==
    /\ last.op = "Flush"
    /\ last.size0 >= 1
    /\ stats.hits = 1

\* The new entry fits next to the old ones within both limits.
Fits(key, value) ==
    /\ Size + 1 <= stats.maxsize
    /\ Memory + EntryCost([first |-> key, second |-> value]) <= stats.maxmem

\* C9: Add returns true iff the key was absent, and then the new entry went
\* in at the head, followed by the old entries: all of them when the entry
\* fits within the limits, else less what was evicted from the tail; on a
\* present key it returns false, moves the key to the head and leaves its
\* value, Size(), Memory(), hits and misses unchanged.
C9_AddOnlyIfAbsent ==
    [][last'.op = "Add" =>
         /\ ret'.kind = "bool"
         /\ ret'.val = (last'.key \notin DOMAIN table)
         /\ IF last'.key \notin DOMAIN table
            THEN LET inserted == << <<last'.key, last'.value>> >> \o Items(buf)
                 IN /\ IsPrefix(Items(buf'), inserted)
                    /\ Fits(last'.key, last'.value) => Items(buf') = inserted
            ELSE /\ buf'[1].first = last'.key
                 /\ ValueAt(buf', last'.key) = ValueAt(buf, last'.key)
                 /\ stats' = stats]_vars

\* An Add failed on a key that holds another value than the one offered.
C9_Witness ==
    /\ last.op = "Add"
    /\ ret.val = FALSE
    /\ Len(buf) >= 2
    /\ buf[1].first = last.key
    /\ buf[1].second # last.value

\* C10: Replace on an absent key returns false and changes nothing; on a
\* present key it returns true, stores the value and moves the key to the
\* head.
C10_ReplaceOnlyIfPresent ==
    [][last'.op = "Replace" =>
         /\ ret'.kind = "bool"
         /\ ret'.val = (last'.key \in DOMAIN table)
         /\ IF last'.key \notin DOMAIN table
            THEN /\ buf' = buf
                 /\ table' = table
                 /\ stats' = stats
                 /\ UNCHANGED <<key_mem_, value_mem_, loader, safe, printer, codec>>
            ELSE Item(buf'[1]) = <<last'.key, last'.value>>]_vars

\* A Replace failed on a cache that holds other keys.
C10_Witness ==
    /\ last.op = "Replace"
    /\ ret.val = FALSE
    /\ Len(buf) >= 1

\* The entries without the one for `key'.
Without(items, key) == SelectSeq(items, LAMBDA item : item[1] # key)

\* The index entries of the keys in S.
IndexOf(t, S) == [k \in S |-> t[k]]

\* C11: Delete(k) on a present key returns true, removes that entry alone
\* from the index and from the recency order (the others keep their order),
\* and takes 1 off Size() and the entry's cost off Memory(); on an absent key
\* it returns false and changes nothing.
C11_DeleteRemovesOne ==
    [][last'.op = "Delete" =>
         /\ ret'.kind = "bool"
         /\ ret'.val = (last'.key \in DOMAIN table)
         /\ IF last'.key \in DOMAIN table
            THEN LET e == buf[CHOOSE i \in PositionsOf(buf, last'.key) : TRUE]
                 IN /\ Items(buf') = Without(Items(buf), last'.key)
                    /\ Len(buf') = Len(buf) - 1
                    /\ DOMAIN table' = DOMAIN table \ {last'.key}
                    /\ table' = IndexOf(table, DOMAIN table')
                    /\ stats' = [stats EXCEPT
                                    !.currsize = stats.currsize - 1,
                                    !.currmem = stats.currmem - EntryCost(e)]
            ELSE /\ buf' = buf
                 /\ table' = table
                 /\ stats' = stats]_vars

\* With hints, a Delete took one of three entries out.
C11_Witness ==
    /\ last.op = "Delete"
    /\ ret.val = TRUE
    /\ key_mem_ # nullptr
    /\ last.size0 = 3
    /\ Len(buf) = 2

\* C12: Get(k) on an absent key returns the empty result and adds 1 to
\* misses; the entries, their order, hits, Size(), Memory() and the limits
\* stay as they were.
C12_GetMissOnlyCounts ==
    [][(last'.op = "Get" /\ last'.key \notin DOMAIN table) =>
         /\ ret'.kind = "empty"
         /\ buf' = buf
         /\ table' = table
         /\ stats' = [stats EXCEPT !.misses = stats.misses + 1]]_vars

\* A Get missed in a cache that holds two other keys.
C12_Witness ==
    /\ last.op = "Get"
    /\ ret.kind = "empty"
    /\ stats.misses = 1
    /\ Len(buf) = 2
    /\ buf[1].second # buf[2].second

\* C13: Flush() leaves no entries, Size() = 0 and Memory() = 0, and keeps
\* hits, misses, maxsize and maxmem.
C13_FlushKeepsStats ==
    [][last'.op = "Flush" =>
         /\ buf' = <<>>
         /\ DOMAIN table' = {}
         /\ stats' = [stats EXCEPT !.currsize = 0, !.currmem = 0]]_vars

\* A Flush emptied a cache of two entries after a miss was counted.
C13_Witness ==
    /\ last.op = "Flush"
    /\ last.size0 = 2
    /\ stats.misses = 1
    /\ buf = <<>>

\* C14: Maxsize(n), n not the sentinel, sets the limit to n and keeps the
\* first min(n, Size()) entries in their order (none for n = 0); Size() and
\* Memory() go down by what was removed; maxmem, hits and misses stay.
C14_MaxsizeKeepsHead ==
    [][(last'.op = "Maxsize" /\ last'.n # nval) =>
         LET kept == Min2(last'.n, Size)
             removed == SubSeq(buf, kept + 1, Len(buf))
         IN /\ buf' = SubSeq(buf, 1, kept)
            /\ table' = IndexOf(table, KeysOf(buf'))
            /\ stats' = [stats EXCEPT
                            !.maxsize = last'.n,
                            !.currsize = kept,
                            !.currmem = stats.currmem - TotalCost(removed)]]_vars

\* With hints, Maxsize(0) emptied a cache of three entries.
C14_Witness ==
    /\ last.op = "Maxsize"
    /\ last.n = 0
    /\ key_mem_ # nullptr
    /\ last.size0 = 3
    /\ buf = <<>>
    /\ Memory = 0

\* The length of the longest prefix of b whose cost is within `bytes'.
LongestFit(b, bytes) ==
    CHOOSE n \in 0..Len(b) :
        /\ TotalCost(SubSeq(b, 1, n)) <= bytes
        /\ \A m \in (n + 1)..Len(b) : TotalCost(SubSeq(b, 1, m)) > bytes

\* C15: Maxmem(b) sets the limit to b and evicts from the tail until
\* Memory() <= b: what stays is the longest prefix of the head-to-tail order
\* that fits (nothing for b = 0); maxsize, hits and misses stay.
C15_MaxmemKeepsLongestFit ==
    [][last'.op = "Maxmem" =>
         LET kept == LongestFit(buf, last'.n)
         IN /\ buf' = SubSeq(buf, 1, kept)
            /\ table' = IndexOf(table, KeysOf(buf'))
            /\ stats' = [stats EXCEPT
                            !.maxmem = last'.n,
                            !.currsize = kept,
                            !.currmem = TotalCost(buf')]
            /\ stats'.currmem <= last'.n]_vars

\* Maxmem(cost of the head entry) cut a cache of three entries down to its
\* head.
C15_Witness ==
    /\ last.op = "Maxmem"
    /\ last.size0 = 3
    /\ Len(buf) = 1
    /\ last.n = EntryCost(buf[1])

\* C16: Maxsize(nval) and Maxmem(nval) set their limit to nval and leave the
\* entries, their order, Size(), Memory(), hits and misses as they were; a
\* cache constructed without arguments has both limits at nval; and with
\* both limits at nval an insertion evicts nothing.
C16_SentinelIsUnbounded ==
    [][/\ (last'.op = "Maxsize" /\ last'.n = nval)
            => /\ buf' = buf
               /\ table' = table
               /\ stats' = [stats EXCEPT !.maxsize = nval]
       /\ (last'.op = "Maxmem" /\ last'.n = nval)
            => /\ buf' = buf
               /\ table' = table
               /\ stats' = [stats EXCEPT !.maxmem = nval]
       /\ (last.op = "Cache" /\ last.n = 0)
            => /\ stats.maxsize = nval
               /\ stats.maxmem = nval
       /\ (/\ last'.op \in Inserting
           /\ last'.key \notin DOMAIN table
           /\ stats.maxsize = nval
           /\ stats.maxmem = nval)
            => Items(buf') = << <<last'.key, last'.value>> >> \o Items(buf)]_vars

\* Maxsize(nval) was called on a cache limited to two entries and holding
\* two.
C16_Witness ==
    /\ last.op = "Maxsize"
    /\ last.n = nval
    /\ stats.maxsize = nval
    /\ stats.maxmem # nval
    /\ last.size0 = 2
    /\ Len(buf) = 2

\* C17: iterating from begin() to end() yields the entries from the most to
\* the least recently used (after a call that touched a present key, that
\* key first), iterating from rbegin() to rend() yields them in the reverse
\* of that order, and neither changes the order or the statistics.
C17_IterationOrder ==
    [][/\ last'.op = "Iterate"
            => /\ ret'.kind = "items"
               /\ ret'.val = Items(buf)
               /\ (last.op \in Modifying /\ last.key \in DOMAIN table)
                     => ret'.val[1][1] = last.key
               /\ UNCHANGED <<buf, table, stats>>
       /\ last'.op = "ReverseIterate"
            => /\ ret'.kind = "items"
               /\ Len(ret'.val) = Len(buf)
               /\ \A i \in 1..Len(buf) :
                     ret'.val[Len(buf) + 1 - i] = <<buf[i].first, buf[i].second>>
               /\ UNCHANGED <<buf, table, stats>>]_vars

\* A reverse iteration over three entries ended at the head entry.
C17_Witness ==
    /\ last.op = "ReverseIterate"
    /\ ret.kind = "items"
    /\ Len(ret.val) = 3
    /\ ret.val[3][1] = buf[1].first
    /\ ret.val[1][1] = buf[3].first

\* The (key, value) sequence of a compared cache, written out.
OtherEntries ==
    << <<>>,
       << <<KeyList[1], ValueList[1]>> >>,
       << <<KeyList[2], ValueList[2]>>, <<KeyList[1], ValueList[1]>> >>,
       << <<KeyList[1], ValueList[1]>>, <<KeyList[2], ValueList[2]>> >>,
       << <<KeyList[1], ValueList[2]>> >> >>

\* C18: cache == other is true iff the two head-to-tail sequences of
\* (key, value) entries are the same, whatever the hits, misses, maxsize and
\* maxmem of the two; cache != other is the negation.
C18_EqualityIsEntrySequence ==
    /\ last.op = "==" =>
          /\ ret.kind = "bool"
          /\ ret.val = (Items(buf) = OtherEntries[last.n])
    /\ last.op = "!=" =>
          /\ ret.kind = "bool"
          /\ ret.val = (Items(buf) # OtherEntries[last.n])

\* A cache compared equal to one with other limits and other statistics.
C18_Witness ==
    /\ last.op = "=="
    /\ ret.val = TRUE
    /\ Len(buf) = 2
    /\ stats.maxsize # Others(last.n).stats.maxsize
    /\ stats.hits # Others(last.n).stats.hits

\* What Load makes of the bytes Dump wrote for the cache, in a new cache
\* with the same limits (and the same hints).
Reloaded ==
    LoadLoop(Flush(NewCache(stats.maxsize, stats.maxmem)),
             DeserializeAll(Dump(Cache), 1))

\* C19: Dump followed by Load of the bytes into an empty cache with the same
\* limits and hints gives a cache equal to the original: the same entries in
\* the same order.
C19_DumpLoadRoundTrip == Items(Reloaded.buf) = Items(buf)

\* An 8-byte length below 2^32, least significant byte first.
LengthField(n) ==
    <<n % 256, (n \div 256) % 256, (n \div 65536) % 256,
      (n \div 16777216) % 256, 0, 0, 0, 0>>

\* A chunk: the length of the payload, then the payload.
Chunk(str) == LengthField(Len(str)) \o str

\* The entries of b from the last to the first, each as key chunk and value
\* chunk.
RECURSIVE TailToHead(_)
TailToHead(b) ==
    IF b = <<>> THEN <<>>
    ELSE TailToHead(Tail(b)) \o Chunk(Head(b).first) \o Chunk(Head(b).second)

\* C20: Dump writes the entries from tail to head, each as a key chunk and
\* then a value chunk, a chunk being an 8-byte length and that many payload
\* bytes, and nothing else (no bytes for an empty cache).
C20_DumpLayout ==
    last.op = "Dump" =>
        /\ ret.kind = "bytes"
        /\ ret.val = TailToHead(buf)
        /\ buf = <<>> => ret.val = <<>>

\* A cache of three entries was dumped.
C20_Witness ==
    /\ last.op = "Dump"
    /\ ret.kind = "bytes"
    /\ Len(buf) = 3
    /\ Len(ret.val) > 6 * 8

\* Set(key, value) for each (key, value) of items, in order.
RECURSIVE Replay(_, _)
Replay(c, items) ==
    IF items = <<>> THEN c
    ELSE Replay(Set(c, Head(items)[1], Head(items)[2]), Tail(items))

\* C21: Load(stream) gives what Flush() followed by Set(key, value) for each
\* pair of the stream, in stream order, gives: no entry from before the Load
\* survives unless the replay produces it, and maxsize, maxmem, hits and
\* misses are kept.
C21_LoadIsFlushThenSets ==
    [][last'.op = "Load" =>
         LET pairs == Written[last'.bytes]
             replayed == Replay(Flush(Cache), pairs)
         IN /\ buf' = replayed.buf
            /\ table' = replayed.table
            /\ stats' = replayed.stats
            /\ \A i \in 1..Len(buf') :
                  \E j \in 1..Len(pairs) : Item(buf'[i]) = pairs[j]
            /\ stats'.maxsize = stats.maxsize
            /\ stats'.maxmem = stats.maxmem
            /\ stats'.hits = stats.hits
            /\ stats'.misses = stats.misses]_vars

\* After a hit, a Load of one entry replaced a cache of three entries.
C21_Witness ==
    /\ last.op = "Load"
    /\ last.size0 = 3
    /\ Len(buf) = 1
    /\ Len(Written[last.bytes]) = 1
    /\ stats.hits = 1

\* The stream is the dump of a cache: no key is written twice.
IsDump(pairs) == \A i, j \in 1..Len(pairs) : pairs[i][1] = pairs[j][1] => i = j

\* The entries of the dumped cache from head to tail.
Dumped(pairs) == [i \in 1..Len(pairs) |-> pairs[Len(pairs) + 1 - i]]

\* The cost of a (key, value) pair under the hints of the cache.
PairCost(pair) == EntryCost([first |-> pair[1], second |-> pair[2]])

RECURSIVE PairsCost(_)
PairsCost(pairs) ==
    IF pairs = <<>> THEN 0 ELSE PairCost(Head(pairs)) + PairsCost(Tail(pairs))

\* How many of the entries, from the head on, the limits admit.
Admitted(entries, maxsize, maxmem) ==
    CHOOSE n \in 0..Len(entries) :
        /\ n <= maxsize /\ PairsCost(SubSeq(entries, 1, n)) <= maxmem
        /\ \A m \in (n + 1)..Len(entries) :
              m > maxsize \/ PairsCost(SubSeq(entries, 1, m)) > maxmem

\* C22: loading a dump of m entries into a cache whose limits admit j < m of
\* them leaves the j most recently used entries of the dumped cache, in
\* their order.
C22_LoadTruncatesToLimits ==
    [][(last'.op = "Load" /\ IsDump(Written[last'.bytes])) =>
         LET entries == Dumped(Written[last'.bytes])
             j == Admitted(entries, stats.maxsize, stats.maxmem)
         IN j < Len(entries) => Items(buf') = SubSeq(entries, 1, j)]_vars

\* C23: Dump leaves the entries, their order and every stats field as they
\* were, and a Dump right after a Dump writes the same bytes.
C23_DumpIsPureRead ==
    [][last'.op = "Dump" =>
         /\ UNCHANGED <<buf, table, stats>>
         /\ last.op = "Dump" => ret' = ret]_vars

\* A cache of two entries with a counted hit was dumped.
C23_Witness ==
    /\ last.op = "Dump"
    /\ ret.kind = "bytes"
    /\ Len(buf) = 2
    /\ stats.hits = 1

\* The bytes are whole chunks: each 8-byte length is followed by that many
\* bytes.
RECURSIVE WholeChunks(_)
WholeChunks(bytes) ==
    \/ bytes = <<>>
    \/ /\ Len(bytes) >= 8
       /\ \A i \in 2..8 : bytes[i] = 0
       /\ bytes[1] <= Len(bytes) - 8
       /\ WholeChunks(SubSeq(bytes, 9 + bytes[1], Len(bytes)))

\* C24: a Load of bytes that end inside a chunk (inside a length, or before
\* the payload is complete) does not return to its caller as a success.
C24_TruncatedLoadFaults == ~WholeChunks(stream.bytes) => pc # "returned"

\* C25: Load does not read or advance its input at or beyond `last'.
C25_LoadStaysInRange == ~past

-----------------------------------------------------------------------------
(* SafeCache *)

\* Thread t is inside an operation on instance x: it has the lock and has
\* not returned.
Inside(t, x) ==
    thread[t].pc \in {"locked", "running"} /\ thread[t].op.inst = x

\* Thread t keeps a ScopeGuard alive (every one of them is on "a").
Holding(t) == thread[t].handles # <<>>

Busy(t, x) == Inside(t, x) \/ (x = "a" /\ Holding(t))

\* Thread t is reading or writing the engine of instance x.
Accesses(t, x) ==
    /\ thread[t].pc = "running"
    /\ thread[t].op.inst = x \/ (thread[t].op.name = "==" /\ x = "b")

\* The step is one of thread u.
StepOf(u) ==
    \/ thread'[u].pc # thread[u].pc
    \/ Len(thread'[u].handles) # Len(thread[u].handles)

HandlesOf(t) == {thread[t].handles[i] : i \in 1..Len(thread[t].handles)}

OneBusyThread(x) ==
    \A t, u \in Threads : Busy(t, x) /\ Busy(u, x) => t = u

\* C26: on each SafeCache at most one thread is inside an operation or holds
\* a live handle, and a thread reads or writes the engine of an instance
\* only while it owns the lock of that instance.
C26_OnlyTheOwnerAccesses ==
    \A x \in Instances :
        /\ OneBusyThread(x)
        /\ \A t \in Threads : Accesses(t, x) => mutex_[x].owner = t

\* C27: while a thread holds a live handle, a step of another thread neither
\* changes the cache nor takes that thread into an operation on the same
\* instance; the operation of the other thread waits at the lock.
C27_HandleKeepsOthersOut ==
    [][\A t \in Threads : \A u \in Threads \ {t} :
          Holding(t) /\ StepOf(u)
              => /\ UNCHANGED <<buf, table, stats>>
                 /\ ~Inside(u, "a")']_vars

C27_Witness ==
    /\ Holding(1)
    /\ thread[1].handles[1].op.name = "Get"
    /\ thread[1].handles[1].ret = [kind |-> "value", val |-> ValueList[1]]
    /\ thread[2].pc = "waiting"
    /\ thread[2].op = Op("Set", "a", KeyList[1], ValueList[2])
    /\ ValueAt(buf, KeyList[1]) = ValueList[1]

\* C28: whenever no thread is inside an operation on "a", its engine is the
\* one a plain Cache has after the same operations in the order of lock
\* acquisition, and every result returned is the result returned there.
C28_SerialInLockOrder ==
    /\ (\A t \in Threads : ~Inside(t, "a")) => Cache = serial
    /\ \A t \in Threads : \A h \in HandlesOf(t) :
          h.op.name # "==" => h.ret = h.expect

C28_Witness ==
    /\ \E h \in HandlesOf(1) :
          /\ h.op.name = "Get"
          /\ h.ret = [kind |-> "value", val |-> ValueList[2]]
    /\ Size = 2
    /\ thread[2].pc = "waiting"
    /\ Cache = serial

\* C29: a thread that holds a handle and calls another operation on the same
\* instance gets the lock at once and the operation returns the result of
\* the engine; the lock is counted once per live handle and operation of
\* its owner, and is free exactly when no thread has either.
C29_Reentrant ==
    /\ \A t \in Threads :
          /\ (Holding(t) /\ thread[t].pc = "waiting" /\ thread[t].op.inst = "a")
                => ENABLED Acquire(t)
          /\ mutex_["a"].owner = t
                => mutex_["a"].count = Len(thread[t].handles)
                                       + (IF Inside(t, "a") THEN 1 ELSE 0)
          /\ \A i \in 2..Len(thread[t].handles) :
                thread[t].handles[i].op.name # "=="
                    => thread[t].handles[i].ret = thread[t].handles[i].expect
    /\ mutex_["a"].owner = 0 <=> \A t \in Threads : ~Busy(t, "a")

C29_Witness ==
    \E t \in Threads :
        /\ Len(thread[t].handles) = 2
        /\ thread[t].handles[2].op.name = "Get"
        /\ thread[t].handles[2].ret.kind = "value"
        /\ thread[t].pc = "running"
        /\ thread[t].op.name = "Set"
        /\ mutex_["a"] = [owner |-> t, count |-> 3]

\* C30: the result of a == b is what the comparison of the two lists was at
\* some instant of the comparison.
C30_EqualsIsSnapshot ==
    \A t \in Threads : \A h \in HandlesOf(t) :
        h.op.name = "==" => h.ret.val \in h.seen

-----------------------------------------------------------------------------
(* Insertion, replacement and promotion *)

NewEntry(call) == [first |-> call.key, second |-> call.value]

\* C33: after a Set or an Add of an absent key both limits hold, the new key
\* is at the head of what is left, and nothing is left when the new entry
\* alone costs more than maxmem.
C33_InsertEvictsUntilCompliant ==
    (last.op \in Inserting /\ ~last.found)
        => /\ Size <= stats.maxsize
           /\ Memory <= stats.maxmem
           /\ buf # <<>> => buf[1].first = last.key
           /\ EntryCost(NewEntry(last)) > stats.maxmem => buf = <<>>

\* value_mem_(v), 0 without a value hint.
ValueHint(v) == IF value_mem_ = nullptr THEN 0 ELSE Len(v)

\* C34: Set on a present key stores the value, moves the key to the head,
\* keeps Size() and the set of keys, changes Memory() by the difference of
\* the value hints of the new and the old value, and leaves hits and misses.
C34_SetOnPresentKey ==
    [][(last'.op = "Set" /\ last'.key \in DOMAIN table) =>
         /\ Item(buf'[1]) = <<last'.key, last'.value>>
         /\ Without(Items(buf'), last'.key) = Without(Items(buf), last'.key)
         /\ stats'.currsize = stats.currsize
         /\ DOMAIN table' = DOMAIN table
         /\ stats'.currmem = stats.currmem + ValueHint(last'.value)
                                - ValueHint(ValueAt(buf, last'.key))
         /\ stats'.hits = stats.hits
         /\ stats'.misses = stats.misses]_vars

\* With a value hint, a Set gave the older of two entries a longer value.
C34_Witness ==
    /\ last.op = "Set"
    /\ last.found
    /\ value_mem_ # nullptr
    /\ Len(buf) = 2
    /\ last.value = ValueList[2]
    /\ Memory = 2 * kItemMem + 2 * (Len(buf[1].first) + Len(buf[2].first))
                + Len(ValueList[2]) + Len(buf[2].second)

\* C39: a call that promotes a present key leaves the other entries as they
\* were, in the same order, and the set of keys; the eviction after an
\* insertion and the evictions of Maxsize and Maxmem cut the list at its
\* tail only.
C39_OnlyThePromotedKeyMoves ==
    [][/\ (last'.op \in Modifying /\ last'.key \in DOMAIN table)
            => /\ buf'[1].first = last'.key
               /\ Without(Items(buf'), last'.key) = Without(Items(buf), last'.key)
               /\ KeysOf(buf') = KeysOf(buf)
       /\ (last'.op \in Inserting /\ last'.key \notin DOMAIN table)
            => /\ IsPrefix(Items(buf'), <<Item(NewEntry(last'))>> \o Items(buf))
               /\ Len(buf') >= Len(buf)
       /\ last'.op \in {"Maxsize", "Maxmem"} => IsPrefix(Items(buf'), Items(buf))
      ]_vars

\* A Get found the last of three entries and brought it to the head.
C39_Witness ==
    /\ last.op = "Get"
    /\ last.found
    /\ Len(buf) = 3
    /\ <<buf[1].first, buf[2].first, buf[3].first>>
           = <<KeyList[1], KeyList[3], KeyList[2]>>

\* The call is a Set, or an Add that returned true.
Stored ==
    \/ last'.op = "Set"
    \/ last'.op = "Add" /\ ret'.val = TRUE

\* The key of the call is in the cache with the value of the call, and a Get
\* of it returns that value.
Present ==
    /\ last'.key \in DOMAIN table'
    /\ ValueAt(buf', last'.key) = last'.value
    /\ Get(Cache', last'.key).result = [kind |-> "value", val |-> last'.value]

\* The call inserts into an empty cache an entry that takes Size() above
\* maxsize or Memory() above maxmem.
AloneAndOver ==
    /\ buf = <<>>
    /\ \/ stats.currsize + 1 > stats.maxsize
       \/ stats.currmem + EntryCost(NewEntry(last')) > stats.maxmem

\* C40 as stated: after a Set, and after an Add that returned true, the key
\* is in the cache with the value of the call, whatever the limits are.
C40_StoredIsPresent == [][Stored => Present]_vars

\* C40, amended: the same, except that an entry inserted into an empty cache
\* which it takes over a limit is evicted by the same call, which leaves the
\* cache empty.
C40_StoredIsPresentIfItFits ==
    [][Stored => IF AloneAndOver THEN buf' = <<>> ELSE Present]_vars

\* An Add into an empty cache of maxsize 0 returned true and stored nothing.
C40_Witness ==
    /\ last.op = "Add"
    /\ ret.val = TRUE
    /\ stats.maxsize = 0
    /\ buf = <<>>

-----------------------------------------------------------------------------
(* Values written in place *)

\* The calls that take the cost of an entry off currmem, or change it.
Subtracting == {"Delete", "Set", "Add", "Replace", "Maxsize", "Maxmem"}

\* C37: with a value hint, after each Delete, insertion, Maxsize, Maxmem, Set
\* or Replace, also one that follows a write to a stored value in place,
\* Memory() is the sum of the costs of the entries and has not wrapped.
C37_MemoryAfterInPlaceWrite ==
    (value_mem_ # nullptr /\ last.op \in Subtracting /\ ret.kind # "spin")
        => /\ Memory = TotalCost(buf)
           /\ Memory < SizeMod \div 2

\* C38: Maxmem returns: its loop never meets an empty list with currmem
\* above the new limit.
C38_MaxmemTerminates == ret.kind # "spin"

-----------------------------------------------------------------------------
(* Length codec *)

\* C35: decoding the 8 bytes the encoder wrote for a length gives that
\* length, whatever the element type of the input is.
C35_LengthRoundTrip ==
    codec.pc = "done" => codec.size = LengthField(codec.length)

-----------------------------------------------------------------------------
(* Stream output of the SafeCache *)

Printing(t) == thread[t].pc \in {"header", "stats", "items"}

\* C31: the stream is, line by line, what it would be if every print wrote
\* its whole block (header, statistics, the entries numbered 0..n-1 from the
\* head to the tail) at the instant it took the locks: no line of another
\* print and no effect of another thread's change is inside a block, and the
\* stream holds whole blocks whenever no print is under way.
C31_PrintIsOneBlock ==
    /\ IsPrefix(out, expected)
    /\ (\A t \in Threads : ~Printing(t)) => out = expected

\* A print has written an entry and is not at its end while the other thread
\* waits at the lock to change the cache, after a whole block of that other
\* thread.
C31_Witness ==
    \E t, u \in Threads :
        /\ t # u
        /\ thread[t].pc = "items" /\ thread[t].n > 0 /\ thread[t].n < Len(buf)
        /\ thread[u].pc = "waiting" /\ thread[u].op.inst = "a"
        /\ thread[u].op.name \in {"Set", "Delete"}
        /\ \E i \in DOMAIN out : out[i].kind = "header" /\ out[i].by = u

-----------------------------------------------------------------------------
(* The result of Get as a named variable and as a temporary *)

\* Thread t keeps the result of a Get that found key in a named variable.
Named(t, key) ==
    \E h \in HandlesOf(t) :
        h.op.name = "Get" /\ h.op.key = key /\ h.ret.kind = "value"

\* The thread is outside every operation and keeps no handle: whatever it
\* took out of temporaries, it does not own the lock.
Unguarded(t) ==
    thread[t].pc = "idle" /\ ~Holding(t) => mutex_["a"].owner # t

\* In this step the entry of key stays and keeps its value.
EntryStays(key) ==
    /\ key \in DOMAIN table'
    /\ buf'[PosOf(buf', table'[key])].second
           = buf[PosOf(buf, table[key])].second

\* C32: a thread that used the result of Get only as a temporary does not
\* own the lock when it uses the reference it took out, so a Set or Delete
\* of another thread on that key can come between; while the result is a
\* named variable, no step of another thread changes the entry of that key.
C32_TemporaryIsUnguarded ==
    /\ [](\A t \in Threads : Unguarded(t))
    /\ [][\A t \in Threads : \A u \in Threads \ {t} : \A key \in Keys :
            Named(t, key) /\ StepOf(u) => EntryStays(key)]_vars

\* Thread 1 took the value out of a temporary, thread 2 has set the key
\* since, and thread 1 read through the reference another value than the
\* one Get returned, with the lock free.
C32_Witness ==
    /\ thread[1].pc = "idle"
    /\ ~Holding(1)
    /\ thread[1].ref # <<>>
    /\ thread[1].ref[1].by = {2}
    /\ ~thread[1].ref[1].freed
    /\ thread[1].used # <<>>
    /\ thread[1].used[1] # thread[1].ref[1].val
    /\ mutex_["a"] = Free

-----------------------------------------------------------------------------
(* Release of the lock and progress *)

\* Levels of ownership thread t has of the mutex of "a".
Locks(t) == IF mutex_["a"].owner = t THEN mutex_["a"].count ELSE 0

\* In this step thread t destroys a handle.
Destroys(t) == Len(thread'[t].handles) = Len(thread[t].handles) - 1

\* In this step an operation of thread t on "a" that returns no handle
\* returns.
Returns(t) ==
    /\ thread[t].pc = "running" /\ thread'[t].pc = "idle"
    /\ thread[t].op.inst = "a"
    /\ thread[t].op.name \notin Guarded

\* The threads always eventually discard their handles: each is without a
\* handle again and again.
HandlesDiscarded == \A t \in Threads : []<>(~Holding(t))

====
